---- MODULE Spec2Model ----
(***************************************************************************)
(* Model of the tanks engine: the fixed-timestep simulator                 *)
(* (server/src/sim: world.js, actions.js, step.js, scan.js, loop.js), the  *)
(* action resolver, the Tank API, the player runtime and the match         *)
(* orchestrator (server/src/runtime, server/src/match/matchManager.js).    *)
(*                                                                         *)
(* Units.  The code computes with floating-point seconds, degrees and      *)
(* world units.  The model computes with integers in scaled units so that  *)
(* every quantity the code derives from dt = 1/TICK_RATE is exact:         *)
(*   time     1 s          = UNITS_PER_SEC time units, dt = DT time units  *)
(*   angle    1 degree     = TICK_RATE angle units (au)                    *)
(*   length   1 world unit = TICK_RATE length units (du)                   *)
(* so that turnRate * dt degrees = turnRate au, speed * dt world units =   *)
(* speed du, and |degrees| / turnRate seconds is a whole number of time    *)
(* units.  cos and sin are fixed-point (scale TRIG).  The constants object *)
(* is a parameter of createWorld; the model runs a scaled-down constants   *)
(* snapshot (TICK_RATE, the hit points) and the canonical values for the   *)
(* rest.                                                                   *)
(***************************************************************************)
EXTENDS Integers, Sequences, FiniteSets, TLC

\* ------------------------------------------------------------------ bounds
MaxTicks == 7          \* step is called at most MaxTicks times
MaxCalls == 2          \* direct API calls in the simulator specification
TICK_RATE == 3         \* constants.TICK_RATE of the modelled snapshot
LIGHT_HP == 20         \* constants.TANK_TYPES.light.hp of the snapshot
HEAVY_HP == 40         \* constants.TANK_TYPES.heavy.hp of the snapshot
MATCH_TIME_LIMIT_S == 2 \* constants.MATCH_TIME_LIMIT of the snapshot (seconds)

\* ------------------------------------------------------- program constants
ARENA_WIDTH_U == 1200
ARENA_HEIGHT_U == 800
SCAN_RANGE_U == 700
TANK_RADIUS_U == 18
PROJECTILE_RADIUS_U == 4
PROJECTILE_SPEED == 420
PROJECTILE_DAMAGE == 20
LIGHT_MOVE == 160
LIGHT_TURN == 120
HEAVY_MOVE == 60
HEAVY_TURN == 90
EPSILON == 1           \* 1e-9 s: below every non-zero duration of the model
TRIG == 1000           \* fixed-point scale of cos and sin

UNITS_PER_SEC == 360 * TICK_RATE
DT == UNITS_PER_SEC \div TICK_RATE
ACTION_DURATION == UNITS_PER_SEC
MATCH_TIME_LIMIT == MATCH_TIME_LIMIT_S * UNITS_PER_SEC
FULL == 360 * TICK_RATE

LEN(u) == u * TICK_RATE
ARENA_WIDTH == LEN(ARENA_WIDTH_U)
ARENA_HEIGHT == LEN(ARENA_HEIGHT_U)
SCAN_RANGE == LEN(SCAN_RANGE_U)
TANK_RADIUS == LEN(TANK_RADIUS_U)
PROJECTILE_RADIUS == LEN(PROJECTILE_RADIUS_U)

TANK_TYPES ==
  [light |-> [hp |-> LIGHT_HP, moveSpeed |-> LIGHT_MOVE, turnRate |-> LIGHT_TURN],
   heavy |-> [hp |-> HEAVY_HP, moveSpeed |-> HEAVY_MOVE, turnRate |-> HEAVY_TURN]]

Null == "null"
NoProj == 0 - 1        \* activeProjectileId = null
NoTimer == 0 - 1       \* no timer armed
NoAction == [type |-> "none", aDeg |-> 0, bDeg |-> 0]   \* activeAction = null
NoDeg == [given |-> FALSE, v |-> 0]   \* the degrees argument left out
Deg(v) == [given |-> TRUE, v |-> v]
AllSlots == <<"p1", "p2", "p3">>
SlotSet == {AllSlots[i] : i \in 1..Len(AllSlots)}

\* ------------------------------------------------------------- arithmetic
\* the element of a one-element set: Only({F(r) : r \in {e}}) is F(e) with e
\* computed once
Only(S) == CHOOSE v \in S : TRUE
AbsV(a) == IF a < 0 THEN -a ELSE a
MinV(a, b) == IF a < b THEN a ELSE b
MaxV(a, b) == IF a > b THEN a ELSE b

\* JavaScript's % (the sign follows the dividend)
JsMod(a, m) == IF a >= 0 THEN a % m ELSE -((-a) % m)

\* division rounding toward zero (fixed-point products back to integers)
DivT(a, b) == IF a >= 0 THEN a \div b ELSE -((-a) \div b)

\* the remainder alone, whose sign follows the dividend
normalizeDegRem(deg) == JsMod(deg, FULL)
normalizeDeg(deg) == JsMod(JsMod(deg, FULL) + FULL, FULL)

\* sin of a au in [0, FULL), scaled by TRIG (Bhaskara's rational form,
\* exact at the multiples of 90 degrees)
SinHalf(a) ==
  LET p == a * (180 * TICK_RATE - a)
  IN  (4 * TRIG * p) \div (40500 * TICK_RATE * TICK_RATE - p)
SinQ(a) ==
  LET n == normalizeDeg(a)
  IN  IF n < 180 * TICK_RATE THEN SinHalf(n) ELSE -SinHalf(n - 180 * TICK_RATE)
CosQ(a) == SinQ(a + 90 * TICK_RATE)

\* atan2(dy, dx) in au, normalized into [0, FULL): the angle a of the
\* quadrant of (dx, dy) at which cos(a)*dy - sin(a)*dx changes sign
Cross(a, dx, dy) == CosQ(a) * dy - SinQ(a) * dx
RECURSIVE Bisect(_, _, _, _)
Bisect(lo, hi, dx, dy) ==
  IF hi - lo <= 1
  THEN IF AbsV(Cross(lo, dx, dy)) <= AbsV(Cross(hi, dx, dy)) THEN lo ELSE hi
  ELSE Only({IF Cross(mid, dx, dy) >= 0 THEN Bisect(mid, hi, dx, dy)
              ELSE Bisect(lo, mid, dx, dy) :
                mid \in {(lo + hi) \div 2}})
Atan2Au(dy, dx) ==
  LET q == IF dx > 0 /\ dy >= 0 THEN 0
           ELSE IF dx <= 0 /\ dy > 0 THEN 1
           ELSE IF dx < 0 /\ dy <= 0 THEN 2 ELSE 3
  IN  normalizeDeg(Bisect(q * 90 * TICK_RATE, (q + 1) * 90 * TICK_RATE, dx, dy))

\* ------------------------------------------------------------- scan arc
\* the arc test without the full-circle case
isInScanArcNoFull(scanner, target, aDeg, bDeg, range) ==
  /\ (target.x - scanner.x) * (target.x - scanner.x)
       + (target.y - scanner.y) * (target.y - scanner.y) <= range * range
  /\ normalizeDeg(Atan2Au(target.y - scanner.y, target.x - scanner.x)
                    - scanner.headingDeg - aDeg * TICK_RATE)
       <= normalizeDeg((bDeg - aDeg) * TICK_RATE)
\* the arc test comparing the raw difference of the angles: no wrap-around
isInScanArcNoWrap(scanner, target, aDeg, bDeg, range) ==
  LET dx == target.x - scanner.x
      dy == target.y - scanner.y
      distSq == dx * dx + dy * dy
      a == normalizeDeg(aDeg * TICK_RATE)
      b == normalizeDeg(bDeg * TICK_RATE)
  IN  IF distSq > range * range THEN FALSE
      ELSE IF distSq = 0 THEN TRUE
      ELSE IF a = b THEN TRUE
      ELSE \E relBearing \in {normalizeDeg(Atan2Au(dy, dx) - scanner.headingDeg)} :
              a <= relBearing /\ relBearing <= b
isInScanArc(scanner, target, aDeg, bDeg, range) ==
  LET dx == target.x - scanner.x
      dy == target.y - scanner.y
      distSq == dx * dx + dy * dy
      a == normalizeDeg(aDeg * TICK_RATE)
      b == normalizeDeg(bDeg * TICK_RATE)
      arcSpan == normalizeDeg(b - a)
  IN  IF distSq > range * range THEN FALSE
      ELSE IF distSq = 0 THEN TRUE
      ELSE IF a = b THEN TRUE
      ELSE \E absBearing \in {Atan2Au(dy, dx)} :
              \E relBearing \in {normalizeDeg(absBearing - scanner.headingDeg)} :
                 \E offset \in {normalizeDeg(relBearing - a)} :
                    offset <= arcSpan

\* ------------------------------------------------------------------ state
VARIABLES
  t,            \* world.t (time units)
  tanks,        \* world.tanks: slot -> TankState
  projectiles,  \* world.projectiles: set of Projectile records, keyed by id
  idCounter,    \* world.js module variable _idCounter
  events,       \* the events returned by the last call of step
  tickCount,    \* number of calls of step so far
  calls,        \* number of API calls made so far
  lastCall,     \* the last call: [slot, op, ret, value]; value is what the
                \* awaitable returned by the Tank API holds
  accepted,     \* history: the timed actions accepted so far
  loopRunning,  \* loop.js: running
  accumulator,  \* loop.js: accumulator (wall units)
  sinceLast,    \* loop.js: now - lastTime (wall units)
  loopTimer,    \* loop.js: remaining delay of the armed setTimeout, or NoTimer
  driverPc,     \* "idle", or "wake" while tick() of loop.js is on the stack
  pending,      \* tankApi.js: slot -> _pendingResolve (the mailbox)
  prog,         \* slot -> position of the player's loop function
  race,         \* runPlayer.js: slot -> settled value of the Promise.race, or Null
  runPc,        \* runPlayer.js: slot -> position of run()
  rtRunning,    \* runPlayer.js: slot -> running
  rtError,      \* runPlayer.js: slot -> error
  watchdog,     \* runPlayer.js: slot -> remaining delay of the watchdog, or NoTimer
  matchRunning, \* matchManager.js: matchRunning
  broadcasts,   \* matchManager.js: matchStart, error and matchEnd messages broadcast so far
  bcCount,      \* matchManager.js: tickCount of tryStartMatch
  snapshots,    \* matchManager.js: number of state snapshots broadcast
  fulfils,      \* history: the mailbox callbacks invoked by the last onTick
  sinceStart,   \* history: slot -> wall units since its last accepted timed action
  spins,        \* history: slot -> loop invocations since the host last yielded
  naps,         \* history: number of times a program awaited a timer of its own
  napTimer,     \* slot -> remaining delay of the program's own timer, or NoTimer
  lobby,        \* lobby.js: slot -> the code stored for the slot (its kind), or "none"
  sent,         \* matchManager.js: messages sent to the requester of tryStartMatch
  starts,       \* history: the calls of tryStartMatch, [requester, ret]
  driverLog,    \* history: what tick() of loop.js called in its last wake, and
                \* the calls of stop() since; kept for the loop driver alone
  other         \* a second world of the same process: [t, tanks, projectiles, events]

simVars == <<t, tanks, projectiles, idCounter, events, tickCount>>
histVars == <<calls, lastCall, accepted>>
driverVars == <<loopRunning, accumulator, sinceLast, loopTimer, driverPc>>
runtimeVars == <<pending, prog, race, runPc, rtRunning, rtError, watchdog, napTimer>>
orchVars == <<matchRunning, broadcasts, bcCount, snapshots>>
matchHistVars == <<fulfils, sinceStart, spins, naps>>
matchVars == <<driverVars, runtimeVars, orchVars, matchHistVars>>
lobbyVars == <<lobby, sent, starts>>

Order(tk) == SelectSeq(AllSlots, LAMBDA s : s \in DOMAIN tk)

\* ------------------------------------------------------------ world.js
createTank(slot, x, y, headingDeg, tankType) ==
  [slot |-> slot, x |-> x, y |-> y, headingDeg |-> headingDeg,
   hp |-> TANK_TYPES[tankType].hp, tankType |-> tankType,
   busyUntil |-> 0, activeProjectileId |-> NoProj,
   activeAction |-> NoAction, lastScanResult |-> Null]

\* players: sequence of tank types, slot i is AllSlots[i]; angleOffset: the
\* rotation of the spawn ring drawn from the seeded PRNG (au)
createWorldTanks(players, angleOffset) ==
  LET n == Len(players)
      cx == ARENA_WIDTH \div 2
      cy == ARENA_HEIGHT \div 2
      radius == (MinV(cx, cy) * 55) \div 100
      angle(i) == angleOffset + (FULL * (i - 1)) \div n
  IN  [s \in {AllSlots[i] : i \in 1..n} |->
         LET i == CHOOSE j \in 1..n : AllSlots[j] = s
         IN  createTank(s,
                        cx + DivT(CosQ(angle(i)) * radius, TRIG),
                        cy + DivT(SinQ(angle(i)) * radius, TRIG),
                        JsMod(angle(i) + 180 * TICK_RATE, FULL),
                        players[i])]

\* ---------------------------------------------------------- actions.js
isIdle(tank, now) == now >= tank.busyUntil - EPSILON

beginActionKeepBusy(tank, now, duration, action) ==
  [tank EXCEPT !.activeAction = action]
beginAction(tank, now, duration, action) ==
  [tank EXCEPT !.busyUntil = now + duration, !.activeAction = action]

TurnDuration(tank, degrees) ==
  IF degrees.given
  THEN (AbsV(degrees.v) * UNITS_PER_SEC) \div TANK_TYPES[tank.tankType].turnRate
  ELSE ACTION_DURATION

\* every starter returns [ok, tanks, dur]
StartTimed(tk, now, slot, dur, action) ==
  IF ~isIdle(tk[slot], now)
  THEN [ok |-> FALSE, tanks |-> tk, dur |-> dur]
  ELSE [ok |-> TRUE, dur |-> dur,
        tanks |-> [tk EXCEPT ![slot] = beginAction(tk[slot], now, dur, action)]]

turnLeft(tk, now, slot, degrees) ==
  StartTimed(tk, now, slot, TurnDuration(tk[slot], degrees),
             [type |-> "turnLeft", aDeg |-> 0, bDeg |-> 0])
turnRight(tk, now, slot, degrees) ==
  StartTimed(tk, now, slot, TurnDuration(tk[slot], degrees),
             [type |-> "turnRight", aDeg |-> 0, bDeg |-> 0])
moveForward(tk, now, slot) ==
  StartTimed(tk, now, slot, ACTION_DURATION,
             [type |-> "moveForward", aDeg |-> 0, bDeg |-> 0])
moveBackward(tk, now, slot) ==
  StartTimed(tk, now, slot, ACTION_DURATION,
             [type |-> "moveBackward", aDeg |-> 0, bDeg |-> 0])
scan(tk, now, slot, aDeg, bDeg) ==
  StartTimed(tk, now, slot, ACTION_DURATION,
             [type |-> "scan", aDeg |-> aDeg, bDeg |-> bDeg])

\* shoot without the one-projectile limit
shootNoLimit(tk, projs, idc, slot) ==
  [ok |-> TRUE,
   tanks |-> [tk EXCEPT ![slot].activeProjectileId = idc],
   projectiles |-> projs \cup {[id |-> idc, owner |-> slot, x |-> tk[slot].x,
                                y |-> tk[slot].y, vx |-> 0, vy |-> 0]},
   idCounter |-> idc + 1]
\* a rejected shoot that still draws an id
shootDrawsId(tk, projs, idc, slot) ==
  IF tk[slot].activeProjectileId # NoProj
  THEN [ok |-> FALSE, tanks |-> tk, projectiles |-> projs, idCounter |-> idc + 1]
  ELSE shootNoLimit(tk, projs, idc, slot)
\* shoot returns [ok, tanks, projectiles, idCounter]
shoot(tk, projs, idc, slot) ==
  LET tank == tk[slot]
      spawnOffset == LEN(TANK_RADIUS_U + PROJECTILE_RADIUS_U + 1)
      proj == [id |-> idc, owner |-> slot,
               x |-> tank.x + DivT(CosQ(tank.headingDeg) * spawnOffset, TRIG),
               y |-> tank.y + DivT(SinQ(tank.headingDeg) * spawnOffset, TRIG),
               vx |-> CosQ(tank.headingDeg) * PROJECTILE_SPEED,
               vy |-> SinQ(tank.headingDeg) * PROJECTILE_SPEED]
  IN  IF tank.activeProjectileId # NoProj
      THEN [ok |-> FALSE, tanks |-> tk, projectiles |-> projs, idCounter |-> idc]
      ELSE [ok |-> TRUE,
            tanks |-> [tk EXCEPT ![slot].activeProjectileId = idc],
            \* Map.set: an entry with the same key is replaced
            projectiles |-> {p \in projs : p.id # idc} \cup {proj},
            idCounter |-> idc + 1]

clampNone(tank) == tank
clampToArena(tank) ==
  LET r == TANK_RADIUS
      x1 == IF tank.x < r THEN r ELSE tank.x
      y1 == IF tank.y < r THEN r ELSE tank.y
      x2 == IF x1 > ARENA_WIDTH - r THEN ARENA_WIDTH - r ELSE x1
      y2 == IF y1 > ARENA_HEIGHT - r THEN ARENA_HEIGHT - r ELSE y1
  IN  [tank EXCEPT !.x = x2, !.y = y2]

\* the per-tick increment of one tank's active action
Increment(tank) ==
  LET stats == TANK_TYPES[tank.tankType]
      ty == tank.activeAction.type
      dx == DivT(CosQ(tank.headingDeg) * stats.moveSpeed, TRIG)
      dy == DivT(SinQ(tank.headingDeg) * stats.moveSpeed, TRIG)
  IN  CASE ty = "turnLeft" ->
             [tank EXCEPT !.headingDeg = normalizeDeg(tank.headingDeg - stats.turnRate)]
        [] ty = "turnRight" ->
             [tank EXCEPT !.headingDeg = normalizeDeg(tank.headingDeg + stats.turnRate)]
        [] ty = "moveForward" ->
             clampToArena([tank EXCEPT !.x = tank.x + dx, !.y = tank.y + dy])
        [] ty = "moveBackward" ->
             clampToArena([tank EXCEPT !.x = tank.x - dx, !.y = tank.y - dy])
        [] OTHER -> tank

\* the scan test that counts destroyed tanks too
ScanFoundDead(tk, slot, tank) ==
  \E o \in DOMAIN tk :
     /\ o # slot
     /\ isInScanArc(tank, tk[o], tank.activeAction.aDeg, tank.activeAction.bDeg,
                    SCAN_RANGE)

ScanFound(tk, slot, tank) ==
  \E o \in DOMAIN tk :
     /\ o # slot
     /\ tk[o].hp > 0
     /\ isInScanArc(tank, tk[o], tank.activeAction.aDeg, tank.activeAction.bDeg,
                    SCAN_RANGE)

Bool(b) == IF b THEN "true" ELSE "false"

Ev(kind, slot, actionType, scanResult, projectileId, target, winner, reason) ==
  [kind |-> kind, slot |-> slot, actionType |-> actionType,
   scanResult |-> scanResult, projectileId |-> projectileId,
   target |-> target, winner |-> winner, reason |-> reason]

Expired(now, tank) == now + DT >= tank.busyUntil - EPSILON

\* the body of applyActiveActions' loop for one slot: [tanks, completed];
\* moved is the tank after its increment, scanned the same after the scan
\* evaluation on completion
ApplyScanned(tk, slot, now, moved, scanned) ==
  IF tk[slot].hp <= 0 \/ tk[slot].activeAction = NoAction
  THEN [tanks |-> tk, completed |-> <<>>]
  ELSE IF Expired(now, moved)
  THEN [tanks |-> [tk EXCEPT ![slot] = [scanned EXCEPT !.activeAction = NoAction]],
        completed |-> <<[slot |-> slot, actionType |-> moved.activeAction.type,
                         scanResult |->
                           IF moved.activeAction.type = "scan"
                           THEN (IF scanned.lastScanResult = Null THEN "false"
                                 ELSE scanned.lastScanResult)
                           ELSE "undefined"]>>]
  ELSE [tanks |-> [tk EXCEPT ![slot] = moved], completed |-> <<>>]

ApplyMoved(tk, slot, now, moved) ==
  ApplyScanned(tk, slot, now, moved,
               IF moved.activeAction.type = "scan"
               THEN [moved EXCEPT !.lastScanResult = Bool(ScanFound(tk, slot, moved))]
               ELSE moved)

ApplyOne(tk, slot, now) == ApplyMoved(tk, slot, now, Increment(tk[slot]))

RECURSIVE ApplyFrom(_, _, _, _, _)
ApplyNext(order, i, now, completed, r) ==
  ApplyFrom(order, i + 1, r.tanks, now, completed \o r.completed)
ApplyFrom(order, i, tk, now, completed) ==
  IF i > Len(order) THEN [tanks |-> tk, completed |-> completed]
  ELSE Only({ApplyNext(order, i, now, completed, r) :
               r \in {ApplyOne(tk, order[i], now)}})

applyActiveActions(tk, now) == ApplyFrom(Order(tk), 1, tk, now, <<>>)

\* -------------------------------------------------------------- step.js
RECURSIVE SortedIds(_)
SortedIds(ids) ==
  IF ids = {} THEN <<>>
  ELSE LET m == CHOOSE i \in ids : \A j \in ids : i <= j
       IN  <<m>> \o SortedIds(ids \ {m})

ProjById(projs, id) == CHOOSE p \in projs : p.id = id
ProjOrder(projs) == SortedIds({p.id : p \in projs})

MoveProjectiles(projs) ==
  {[p EXCEPT !.x = p.x + DivT(p.vx, TRIG), !.y = p.y + DivT(p.vy, TRIG)] : p \in projs}

OutOfBounds(p) ==
  \/ p.x < -PROJECTILE_RADIUS
  \/ p.x > ARENA_WIDTH + PROJECTILE_RADIUS
  \/ p.y < -PROJECTILE_RADIUS
  \/ p.y > ARENA_HEIGHT + PROJECTILE_RADIUS

clearProjectileKeep(tk, proj) == tk
clearProjectileFromOwner(tk, proj) ==
  IF proj.owner \in DOMAIN tk /\ tk[proj.owner].activeProjectileId = proj.id
  THEN [tk EXCEPT ![proj.owner].activeProjectileId = NoProj]
  ELSE tk

\* the despawn loop leaving the projectile in the map
RECURSIVE DespawnKeeps(_, _, _, _, _)
DespawnKeeps(ids, i, tk, projs, evs) ==
  IF i > Len(ids) THEN [tanks |-> tk, projectiles |-> projs, events |-> evs]
  ELSE LET p == ProjById(projs, ids[i])
       IN  IF OutOfBounds(p)
           THEN DespawnKeeps(ids, i + 1, clearProjectileFromOwner(tk, p), projs,
                  Append(evs, Ev("despawn", p.owner, Null, Null, p.id, Null, Null, "oob")))
           ELSE DespawnKeeps(ids, i + 1, tk, projs, evs)

\* the despawn loop: [tanks, projectiles, events]
RECURSIVE DespawnFrom(_, _, _, _, _)
DespawnFrom(ids, i, tk, projs, evs) ==
  IF i > Len(ids) THEN [tanks |-> tk, projectiles |-> projs, events |-> evs]
  ELSE LET p == ProjById(projs, ids[i])
       IN  IF OutOfBounds(p)
           THEN DespawnFrom(ids, i + 1, clearProjectileFromOwner(tk, p), projs \ {p},
                  Append(evs, Ev("despawn", p.owner, Null, Null, p.id, Null, Null, "oob")))
           ELSE DespawnFrom(ids, i + 1, tk, projs, evs)

HitRangeSq == (PROJECTILE_RADIUS + TANK_RADIUS) * (PROJECTILE_RADIUS + TANK_RADIUS)

\* the hit test without the check that the target is alive
HitsDead(p, slot, tk) ==
  /\ slot # p.owner
  /\ (p.x - tk[slot].x) * (p.x - tk[slot].x)
       + (p.y - tk[slot].y) * (p.y - tk[slot].y) <= HitRangeSq

Hits(p, slot, tk) ==
  /\ slot # p.owner
  /\ tk[slot].hp > 0
  /\ (p.x - tk[slot].x) * (p.x - tk[slot].x)
       + (p.y - tk[slot].y) * (p.y - tk[slot].y) <= HitRangeSq

\* the first tank, in slot order, that projectile p hits; Null if none
FirstTarget(p, tk) ==
  LET order == Order(tk)
      hit == {i \in 1..Len(order) : Hits(p, order[i], tk)}
  IN  IF hit = {} THEN Null
      ELSE order[CHOOSE i \in hit : \A j \in hit : i <= j]

Damage(tank) ==
  [tank EXCEPT !.hp = IF tank.hp - PROJECTILE_DAMAGE < 0 THEN 0
                      ELSE tank.hp - PROJECTILE_DAMAGE]

\* the hit loop: [tanks, projectiles, events]
RECURSIVE HitFrom(_, _, _, _, _)
HitFrom(ids, i, tk, projs, evs) ==
  IF i > Len(ids) THEN [tanks |-> tk, projectiles |-> projs, events |-> evs]
  ELSE LET p == ProjById(projs, ids[i])
           target == FirstTarget(p, tk)
       IN  IF target # Null
           THEN HitFrom(ids, i + 1,
                  clearProjectileFromOwner([tk EXCEPT ![target] = Damage(tk[target])], p),
                  projs \ {p},
                  Append(evs, Ev("hit", p.owner, Null, Null, p.id, target, Null, Null)))
           ELSE HitFrom(ids, i + 1, tk, projs, evs)

Alive(tk) == SelectSeq(Order(tk), LAMBDA s : tk[s].hp > 0)

\* alive.sort((a, b) => hp[b] - hp[a]): stable, descending by hp
RECURSIVE SortByHp(_, _)
SortByHp(alive, tk) ==
  IF alive = <<>> THEN <<>>
  ELSE LET best == CHOOSE i \in 1..Len(alive) :
                     /\ \A j \in 1..Len(alive) : tk[alive[j]].hp <= tk[alive[i]].hp
                     /\ \A j \in 1..(i - 1) : tk[alive[j]].hp < tk[alive[i]].hp
           rest == SelectSeq(alive, LAMBDA s : s # alive[best])
       IN  <<alive[best]>> \o SortByHp(rest, tk)

\* the match-end check without the time limit
MatchEndNoLimit(tk, now) ==
  IF Len(Alive(tk)) = 1
  THEN <<Ev("matchEnd", Null, Null, Null, NoProj, Null, Alive(tk)[1], "hp")>>
  ELSE IF Len(Alive(tk)) = 0
  THEN <<Ev("matchEnd", Null, Null, Null, NoProj, Null, Null, "double_ko")>>
  ELSE <<>>
\* the match-end check with the time limit tested first and ties broken by
\* slot order
MatchEndTimeFirst(tk, now) ==
  LET alive == Alive(tk)
      sorted == SortByHp(alive, tk)
  IN  IF now >= MATCH_TIME_LIMIT /\ Len(alive) >= 1
      THEN <<Ev("matchEnd", Null, Null, Null, NoProj, Null, sorted[1], "timeout")>>
      ELSE IF Len(alive) = 1
      THEN <<Ev("matchEnd", Null, Null, Null, NoProj, Null, alive[1], "hp")>>
      ELSE IF Len(alive) = 0
      THEN <<Ev("matchEnd", Null, Null, Null, NoProj, Null, Null, "double_ko")>>
      ELSE <<>>
MatchEndEvents(tk, now) ==
  LET alive == Alive(tk)
      sorted == SortByHp(alive, tk)
  IN  IF Len(alive) <= 1
      THEN IF Len(alive) = 1
           THEN <<Ev("matchEnd", Null, Null, Null, NoProj, Null, alive[1], "hp")>>
           ELSE <<Ev("matchEnd", Null, Null, Null, NoProj, Null, Null, "double_ko")>>
      ELSE IF now >= MATCH_TIME_LIMIT
      THEN IF tk[sorted[1]].hp > tk[sorted[2]].hp
           THEN <<Ev("matchEnd", Null, Null, Null, NoProj, Null, sorted[1], "timeout")>>
           ELSE <<Ev("matchEnd", Null, Null, Null, NoProj, Null, Null, "timeout")>>
      ELSE <<>>

ActionCompleteEvents(completed) ==
  [i \in 1..Len(completed) |->
     Ev("actionComplete", completed[i].slot, completed[i].actionType,
        completed[i].scanResult, NoProj, Null, Null, Null)]

\* step(world): [tanks, projectiles, t, events]
StepEnd(hit, now1) ==
  [tanks |-> hit.tanks, projectiles |-> hit.projectiles, t |-> now1,
   events |-> hit.events \o MatchEndEvents(hit.tanks, now1)]
StepHits(desp, now) ==
  Only({StepEnd(hit, now + DT) :
          hit \in {HitFrom(ProjOrder(desp.projectiles), 1, desp.tanks,
                           desp.projectiles, desp.events)}})
StepDespawn(applied, moved, now) ==
  Only({StepHits(desp, now) :
          desp \in {DespawnFrom(ProjOrder(moved), 1, applied.tanks, moved,
                                ActionCompleteEvents(applied.completed))}})
\* step evaluating the end of the match before the time is advanced
stepEndsEarly(tk, projs, now) ==
  LET applied == applyActiveActions(tk, now)
      moved == MoveProjectiles(projs)
      desp == DespawnFrom(ProjOrder(moved), 1, applied.tanks, moved,
                          ActionCompleteEvents(applied.completed))
      hit == HitFrom(ProjOrder(desp.projectiles), 1, desp.tanks, desp.projectiles,
                     desp.events)
  IN  [tanks |-> hit.tanks, projectiles |-> hit.projectiles, t |-> now + DT,
       events |-> hit.events \o MatchEndEvents(hit.tanks, now)]
step(tk, projs, now) ==
  Only({StepDespawn(applied, moved, now) :
          applied \in {applyActiveActions(tk, now)},
          moved \in {MoveProjectiles(projs)}})

\* tankApi.js: _pendingResolve = null
NoPending == [set |-> FALSE, isScan |-> FALSE, awaited |-> FALSE, n |-> 0, type |-> Null]

\* ------------------------------------------------- history of the calls
\* the tick in which an action accepted after n ticks, of duration D, is due:
\* the smallest m > n with (m - n) * DT >= D - EPSILON
DueTick(n, D) == n + MaxV(1, (D - EPSILON + DT - 1) \div DT)

NoCall == [slot |-> Null, op |-> Null, ret |-> FALSE, value |-> Null]

Record(acc, slot, r, ty) ==
  IF r.ok
  THEN [acc EXCEPT ![slot] = @ \cup {[n |-> tickCount, D |-> r.dur, type |-> ty]}]
  ELSE acc

\* forget the accepted actions whose due tick has passed
Forget(acc, m) == [s \in DOMAIN acc |-> {r \in acc[s] : DueTick(r.n, r.D) > m}]

\* ------------------------------------------- the simulator, called directly
Lineups == {<<"light", "heavy">>}
SpawnOffsets == {0}
DegArgs == {NoDeg, Deg(0), Deg(0 - 40)}
ScanArgs == {<<0 - 30, 30>>, <<170, 0 - 170>>}

InitWorld(players, off) ==
  /\ tanks = createWorldTanks(players, off)
  /\ t = 0
  /\ projectiles = {}
  /\ idCounter = 0
  /\ events = <<>>
  /\ tickCount = 0
  /\ calls = 0
  /\ lastCall = NoCall
  /\ accepted = [s \in DOMAIN tanks |-> {}]

\* no second world
NoOther == [t |-> 0, tanks |-> << >>, projectiles |-> {}, events |-> <<>>]

\* matchManager.js tryStartMatch: the matchStart broadcast
MatchStartMsg == [kind |-> "matchStart", slot |-> Null, winner |-> Null, reason |-> Null]

\* the orchestration before tryStartMatch: nothing started
NoMatch ==
  /\ loopRunning = FALSE
  /\ accumulator = 0
  /\ sinceLast = 0
  /\ loopTimer = NoTimer
  /\ driverPc = "idle"
  /\ pending = [s \in DOMAIN tanks |-> NoPending]
  /\ prog = [s \in DOMAIN tanks |-> "none"]
  /\ race = [s \in DOMAIN tanks |-> Null]
  /\ runPc = [s \in DOMAIN tanks |-> "done"]
  /\ rtRunning = [s \in DOMAIN tanks |-> FALSE]
  /\ rtError = [s \in DOMAIN tanks |-> Null]
  /\ watchdog = [s \in DOMAIN tanks |-> NoTimer]
  /\ napTimer = [s \in DOMAIN tanks |-> NoTimer]
  /\ matchRunning = FALSE
  /\ broadcasts = <<>>
  /\ bcCount = 0
  /\ snapshots = 0
  /\ fulfils = {}
  /\ sinceStart = [s \in DOMAIN tanks |-> 0]
  /\ spins = [s \in DOMAIN tanks |-> 0]
  /\ naps = 0
  /\ lobby = [s \in SlotSet |-> "none"]
  /\ sent = <<>>
  /\ starts = <<>>
  /\ driverLog = <<>>

Init ==
  /\ \E players \in Lineups, off \in SpawnOffsets : InitWorld(players, off)
  /\ NoMatch
  /\ other = NoOther

\* a timed starter called for slot s with result r
Timed(s, op, r) ==
  /\ calls < MaxCalls
  /\ tanks' = r.tanks
  /\ calls' = calls + 1
  /\ lastCall' = [slot |-> s, op |-> op, ret |-> r.ok, value |-> Null]
  /\ accepted' = Record(accepted, s, r, op)
  /\ UNCHANGED <<lobbyVars, driverLog, other, t, projectiles, idCounter, events, tickCount, matchVars>>

CallTurnLeft ==
  \E s \in DOMAIN tanks, d \in DegArgs : Timed(s, "turnLeft", turnLeft(tanks, t, s, d))
CallTurnRight ==
  \E s \in DOMAIN tanks, d \in DegArgs : Timed(s, "turnRight", turnRight(tanks, t, s, d))
CallMoveForward ==
  \E s \in DOMAIN tanks : Timed(s, "moveForward", moveForward(tanks, t, s))
CallMoveBackward ==
  \E s \in DOMAIN tanks : Timed(s, "moveBackward", moveBackward(tanks, t, s))
CallScan ==
  \E s \in DOMAIN tanks, ab \in ScanArgs :
     Timed(s, "scan", scan(tanks, t, s, ab[1], ab[2]))

\* shoot called for slot s with result r
Shot(s, r) ==
  /\ calls < MaxCalls
  /\ tanks' = r.tanks
  /\ projectiles' = r.projectiles
  /\ idCounter' = r.idCounter
  /\ calls' = calls + 1
  /\ lastCall' = [slot |-> s, op |-> "shoot", ret |-> r.ok, value |-> Null]
  /\ UNCHANGED <<lobbyVars, driverLog, other, t, events, tickCount, accepted, matchVars>>

CallShoot ==
  \E s \in DOMAIN tanks : Shot(s, shoot(tanks, projectiles, idCounter, s))

\* step called on the world, with result r
Stepped(r) ==
  /\ tickCount < MaxTicks
  /\ tanks' = r.tanks
  /\ projectiles' = r.projectiles
  /\ t' = r.t
  /\ events' = r.events
  /\ tickCount' = tickCount + 1
  /\ accepted' = Forget(accepted, tickCount + 1)
  /\ lastCall' = NoCall
  /\ UNCHANGED <<lobbyVars, driverLog, other, idCounter, calls, matchVars>>

Step == Stepped(step(tanks, projectiles, t))

vars == <<simVars, histVars, matchVars, lobbyVars, other, driverLog>>

Next ==
  \/ CallTurnLeft
  \/ CallTurnRight
  \/ CallMoveForward
  \/ CallMoveBackward
  \/ CallScan
  \/ CallShoot
  \/ Step

Spec == Init /\ [][Next]_vars

\* ------------------------------- the simulator, driven towards a wall
\* Two light tanks on a spawn ring rotated by WallOffsetDeg degrees; the
\* calls let a tank turn to face the nearest wall, drive into it and fire.
MaxWallTicks == 8
MaxWallCalls == 4
WallOffsetDeg == 110
WallTurnDeg == 160

InitWall ==
  /\ InitWorld(<<"light", "light">>, WallOffsetDeg * TICK_RATE)
  /\ NoMatch
  /\ other = NoOther

WallTimed(s, op, r) ==
  /\ calls < MaxWallCalls
  /\ tanks' = r.tanks
  /\ calls' = calls + 1
  /\ lastCall' = [slot |-> s, op |-> op, ret |-> r.ok, value |-> Null]
  /\ accepted' = Record(accepted, s, r, op)
  /\ UNCHANGED <<lobbyVars, driverLog, other, t, projectiles, idCounter, events, tickCount, matchVars>>

WallTurnRight ==
  \E s \in DOMAIN tanks :
     WallTimed(s, "turnRight", turnRight(tanks, t, s, Deg(WallTurnDeg)))
WallMoveForward ==
  \E s \in DOMAIN tanks : WallTimed(s, "moveForward", moveForward(tanks, t, s))

WallShot(s, r) ==
  /\ calls < MaxWallCalls
  /\ tanks' = r.tanks
  /\ projectiles' = r.projectiles
  /\ idCounter' = r.idCounter
  /\ calls' = calls + 1
  /\ lastCall' = [slot |-> s, op |-> "shoot", ret |-> r.ok, value |-> Null]
  /\ UNCHANGED <<lobbyVars, driverLog, other, t, events, tickCount, accepted, matchVars>>

WallShoot ==
  \E s \in DOMAIN tanks : WallShot(s, shoot(tanks, projectiles, idCounter, s))

WallStepped(r) ==
  /\ tickCount < MaxWallTicks
  /\ tanks' = r.tanks
  /\ projectiles' = r.projectiles
  /\ t' = r.t
  /\ events' = r.events
  /\ tickCount' = tickCount + 1
  /\ accepted' = Forget(accepted, tickCount + 1)
  /\ lastCall' = NoCall
  /\ UNCHANGED <<lobbyVars, driverLog, other, idCounter, calls, matchVars>>

WallStep == WallStepped(step(tanks, projectiles, t))

NextWall ==
  \/ WallTurnRight
  \/ WallMoveForward
  \/ WallShoot
  \/ WallStep

SpecWall == InitWall /\ [][NextWall]_vars

\* ------------------------------- the simulator, scanning the full circle
\* Two light tanks facing each other across the spawn ring; backing away
\* takes them out of scan range of each other, a shot kills the opponent.
MaxScanTicks == 6
MaxScanCalls == 3
FullScanArgs == {<<90, 90>>, <<0 - 90, 270>>}

InitScan ==
  /\ InitWorld(<<"light", "light">>, 0)
  /\ NoMatch
  /\ other = NoOther

ScanTimed(s, op, r) ==
  /\ calls < MaxScanCalls
  /\ tanks' = r.tanks
  /\ calls' = calls + 1
  /\ lastCall' = [slot |-> s, op |-> op, ret |-> r.ok, value |-> Null]
  /\ accepted' = Record(accepted, s, r, op)
  /\ UNCHANGED <<lobbyVars, driverLog, other, t, projectiles, idCounter, events, tickCount, matchVars>>

ScanMoveBackward ==
  \E s \in DOMAIN tanks : ScanTimed(s, "moveBackward", moveBackward(tanks, t, s))
ScanFull ==
  \E s \in DOMAIN tanks, ab \in FullScanArgs :
     ScanTimed(s, "scan", scan(tanks, t, s, ab[1], ab[2]))

ScanShot(s, r) ==
  /\ calls < MaxScanCalls
  /\ tanks' = r.tanks
  /\ projectiles' = r.projectiles
  /\ idCounter' = r.idCounter
  /\ calls' = calls + 1
  /\ lastCall' = [slot |-> s, op |-> "shoot", ret |-> r.ok, value |-> Null]
  /\ UNCHANGED <<lobbyVars, driverLog, other, t, events, tickCount, accepted, matchVars>>

ScanShoot ==
  \E s \in DOMAIN tanks : ScanShot(s, shoot(tanks, projectiles, idCounter, s))

ScanStepped(r) ==
  /\ tickCount < MaxScanTicks
  /\ tanks' = r.tanks
  /\ projectiles' = r.projectiles
  /\ t' = r.t
  /\ events' = r.events
  /\ tickCount' = tickCount + 1
  /\ accepted' = Forget(accepted, tickCount + 1)
  /\ lastCall' = NoCall
  /\ UNCHANGED <<lobbyVars, driverLog, other, idCounter, calls, matchVars>>

ScanStep == ScanStepped(step(tanks, projectiles, t))

NextScan ==
  \/ ScanMoveBackward
  \/ ScanFull
  \/ ScanShoot
  \/ ScanStep

SpecScan == InitScan /\ [][NextScan]_vars

\* ------------------------------------ two worlds created with the same seed
\* Both worlds live in the same process, so both draw their projectile ids
\* from the one module variable _idCounter.  Every call is made on the first
\* world and then on the second, at the same tick index.
MaxTwinTicks == 6
MaxTwinCalls == 3

InitTwin ==
  /\ \E players \in Lineups, off \in SpawnOffsets : InitWorld(players, off)
  /\ NoMatch
  /\ other = [t |-> 0, tanks |-> tanks, projectiles |-> {}, events |-> <<>>]

TwinTimed(s, op, r, ro) ==
  /\ calls < MaxTwinCalls
  /\ tanks' = r.tanks
  /\ other' = [other EXCEPT !.tanks = ro.tanks]
  /\ calls' = calls + 1
  /\ lastCall' = [slot |-> s, op |-> op, ret |-> r.ok, value |-> Null]
  /\ accepted' = Record(accepted, s, r, op)
  /\ UNCHANGED <<lobbyVars, driverLog, t, projectiles, idCounter, events, tickCount, matchVars>>

TwinTurnLeft ==
  \E s \in DOMAIN tanks, d \in DegArgs :
     TwinTimed(s, "turnLeft", turnLeft(tanks, t, s, d),
               turnLeft(other.tanks, other.t, s, d))
TwinScan ==
  \E s \in DOMAIN tanks, ab \in ScanArgs :
     TwinTimed(s, "scan", scan(tanks, t, s, ab[1], ab[2]),
               scan(other.tanks, other.t, s, ab[1], ab[2]))

\* shoot on the first world, then shoot on the second
TwinShot(s, r, ro) ==
  /\ calls < MaxTwinCalls
  /\ tanks' = r.tanks
  /\ projectiles' = r.projectiles
  /\ other' = [other EXCEPT !.tanks = ro.tanks, !.projectiles = ro.projectiles]
  /\ idCounter' = ro.idCounter
  /\ calls' = calls + 1
  /\ lastCall' = [slot |-> s, op |-> "shoot", ret |-> r.ok, value |-> Null]
  /\ UNCHANGED <<lobbyVars, driverLog, t, events, tickCount, accepted, matchVars>>

TwinShoot ==
  \E s \in DOMAIN tanks :
     \E r \in {shoot(tanks, projectiles, idCounter, s)} :
        TwinShot(s, r, shoot(other.tanks, other.projectiles, r.idCounter, s))

\* step on the first world, then step on the second
TwinStepped(r, ro) ==
  /\ tickCount < MaxTwinTicks
  /\ tanks' = r.tanks
  /\ projectiles' = r.projectiles
  /\ t' = r.t
  /\ events' = r.events
  /\ other' = [t |-> ro.t, tanks |-> ro.tanks, projectiles |-> ro.projectiles,
               events |-> ro.events]
  /\ tickCount' = tickCount + 1
  /\ accepted' = Forget(accepted, tickCount + 1)
  /\ lastCall' = NoCall
  /\ UNCHANGED <<lobbyVars, driverLog, idCounter, calls, matchVars>>

TwinStep ==
  TwinStepped(step(tanks, projectiles, t), step(other.tanks, other.projectiles, other.t))

NextTwin ==
  \/ TwinTurnLeft
  \/ TwinScan
  \/ TwinShoot
  \/ TwinStep

SpecTwin == InitTwin /\ [][NextTwin]_vars

\* ------------------------------- a world while other worlds are created
\* createWorld (or resetWorld, which calls it) for another world of the same
\* process sets the module variable _idCounter back to 0.
MaxIdsTicks == 5
MaxIdsCalls == 3

InitIds ==
  /\ \E players \in Lineups, off \in SpawnOffsets : InitWorld(players, off)
  /\ NoMatch
  /\ other = NoOther

IdsShot(s, r) ==
  /\ calls < MaxIdsCalls
  /\ tanks' = r.tanks
  /\ projectiles' = r.projectiles
  /\ idCounter' = r.idCounter
  /\ calls' = calls + 1
  /\ lastCall' = [slot |-> s, op |-> "shoot", ret |-> r.ok, value |-> Null]
  /\ UNCHANGED <<lobbyVars, driverLog, other, t, events, tickCount, accepted, matchVars>>

IdsShoot ==
  \E s \in DOMAIN tanks : IdsShot(s, shoot(tanks, projectiles, idCounter, s))

\* world.js createWorld / resetWorld for another world
CreateOther ==
  \E players \in Lineups, off \in SpawnOffsets :
     /\ idCounter # 0
     /\ idCounter' = 0
     /\ other' = [t |-> 0, tanks |-> createWorldTanks(players, off),
                  projectiles |-> {}, events |-> <<>>]
     /\ UNCHANGED <<lobbyVars, driverLog, t, tanks, projectiles, events, tickCount, histVars,
                    matchVars>>

IdsStepped(r) ==
  /\ tickCount < MaxIdsTicks
  /\ tanks' = r.tanks
  /\ projectiles' = r.projectiles
  /\ t' = r.t
  /\ events' = r.events
  /\ tickCount' = tickCount + 1
  /\ accepted' = Forget(accepted, tickCount + 1)
  /\ lastCall' = NoCall
  /\ UNCHANGED <<lobbyVars, driverLog, other, idCounter, calls, matchVars>>

IdsStep == IdsStepped(step(tanks, projectiles, t))

NextIds ==
  \/ IdsShoot
  \/ CreateOther
  \/ IdsStep

SpecIds == InitIds /\ [][NextIds]_vars

\* ------------------------------------------------ turning by degrees
\* One turn at a time: a tank is asked to turn, the world is stepped until
\* the turn completes.  lastCall.value keeps the heading at the start and
\* the degrees argument of the turn in progress.
MaxTurnTicks == 8
MaxTurnCalls == 3
TurnArgs == {NoDeg, Deg(40), Deg(0 - 30), Deg(90), Deg(0)}

InitTurn ==
  /\ \E players \in Lineups, off \in SpawnOffsets : InitWorld(players, off)
  /\ NoMatch
  /\ other = NoOther

TurnTimed(s, op, d, r) ==
  /\ calls < MaxTurnCalls
  /\ \A o \in DOMAIN tanks : tanks[o].activeAction = NoAction
  /\ tanks' = r.tanks
  /\ calls' = calls + 1
  /\ lastCall' = [slot |-> s, op |-> op, ret |-> r.ok,
                  value |-> [from |-> tanks[s].headingDeg, degrees |-> d]]
  /\ accepted' = Record(accepted, s, r, op)
  /\ UNCHANGED <<lobbyVars, driverLog, other, t, projectiles, idCounter, events, tickCount, matchVars>>

TurnLeftCall ==
  \E s \in DOMAIN tanks, d \in TurnArgs : TurnTimed(s, "turnLeft", d, turnLeft(tanks, t, s, d))
TurnRightCall ==
  \E s \in DOMAIN tanks, d \in TurnArgs : TurnTimed(s, "turnRight", d, turnRight(tanks, t, s, d))

TurnStepped(r) ==
  /\ tickCount < MaxTurnTicks
  /\ tanks' = r.tanks
  /\ projectiles' = r.projectiles
  /\ t' = r.t
  /\ events' = r.events
  /\ tickCount' = tickCount + 1
  /\ accepted' = Forget(accepted, tickCount + 1)
  /\ UNCHANGED <<lobbyVars, driverLog, other, idCounter, calls, lastCall, matchVars>>

TurnStep == TurnStepped(step(tanks, projectiles, t))

NextTurn ==
  \/ TurnLeftCall
  \/ TurnRightCall
  \/ TurnStep

SpecTurn == InitTurn /\ [][NextTurn]_vars

\* ------------------------------------------------ two shooters, one target
\* Three tanks on the spawn ring, each facing the centre: a neighbour is 30
\* degrees to either side, one tick of turning for a heavy tank.  The world
\* is taken up after p1 and p2 have turned towards p3 and driven towards it
\* for HitsApproachTicks ticks, which brings p3 to a distance at which a
\* projectile of either lands on it; two shots fired in the same tick then
\* reach p3 in the same tick.
MaxHitsTicks == 4
MaxHitsCalls == 4
HitsLineups == {<<"heavy", "heavy", "light">>, <<"heavy", "heavy", "heavy">>}
HitsTurnDeg == 30
HitsApproachTicks == 3

\* [tanks, t] after p1 and p2 turned towards p3 and one tick was stepped
HitsAimed(players) ==
  LET tk0 == createWorldTanks(players, 0)
      tk1 == turnRight(tk0, 0, "p1", Deg(HitsTurnDeg)).tanks
      tk2 == turnLeft(tk1, 0, "p2", Deg(HitsTurnDeg)).tanks
  IN  step(tk2, {}, 0)

\* [tanks, t] after p1 and p2 kept moving forward for n more ticks
RECURSIVE HitsApproach(_, _, _)
HitsApproach(tk, now, n) ==
  IF n = 0 THEN [tanks |-> tk, t |-> now]
  ELSE LET tk1 == moveForward(tk, now, "p1").tanks
           tk2 == moveForward(tk1, now, "p2").tanks
           r == step(tk2, {}, now)
       IN  HitsApproach(r.tanks, r.t, n - 1)

InitHits ==
  /\ \E players \in HitsLineups :
        \E a \in {HitsAimed(players)} :
           \E r \in {HitsApproach(a.tanks, a.t, HitsApproachTicks)} :
              /\ tanks = r.tanks
              /\ t = r.t
  /\ projectiles = {}
  /\ idCounter = 0
  /\ events = <<>>
  /\ tickCount = 0
  /\ calls = 0
  /\ lastCall = NoCall
  /\ accepted = [s \in DOMAIN tanks |-> {}]
  /\ NoMatch
  /\ other = NoOther

HitsTimed(s, op, r) ==
  /\ calls < MaxHitsCalls
  /\ tanks' = r.tanks
  /\ calls' = calls + 1
  /\ lastCall' = [slot |-> s, op |-> op, ret |-> r.ok, value |-> Null]
  /\ accepted' = Record(accepted, s, r, op)
  /\ UNCHANGED <<lobbyVars, driverLog, other, t, projectiles, idCounter, events, tickCount, matchVars>>

HitsTurnLeft ==
  \E s \in DOMAIN tanks : HitsTimed(s, "turnLeft", turnLeft(tanks, t, s, Deg(HitsTurnDeg)))
HitsTurnRight ==
  \E s \in DOMAIN tanks : HitsTimed(s, "turnRight", turnRight(tanks, t, s, Deg(HitsTurnDeg)))

HitsShot(s, r) ==
  /\ calls < MaxHitsCalls
  /\ tanks' = r.tanks
  /\ projectiles' = r.projectiles
  /\ idCounter' = r.idCounter
  /\ calls' = calls + 1
  /\ lastCall' = [slot |-> s, op |-> "shoot", ret |-> r.ok, value |-> Null]
  /\ UNCHANGED <<lobbyVars, driverLog, other, t, events, tickCount, accepted, matchVars>>

HitsShoot ==
  \E s \in DOMAIN tanks : HitsShot(s, shoot(tanks, projectiles, idCounter, s))

HitsStepped(r) ==
  /\ tickCount < MaxHitsTicks
  /\ tanks' = r.tanks
  /\ projectiles' = r.projectiles
  /\ t' = r.t
  /\ events' = r.events
  /\ tickCount' = tickCount + 1
  /\ accepted' = Forget(accepted, tickCount + 1)
  /\ lastCall' = NoCall
  /\ UNCHANGED <<lobbyVars, driverLog, other, idCounter, calls, matchVars>>

HitsStep == HitsStepped(step(tanks, projectiles, t))

NextHits ==
  \/ HitsTurnLeft
  \/ HitsTurnRight
  \/ HitsShoot
  \/ HitsStep

SpecHits == InitHits /\ [][NextHits]_vars

\* ------------------------------------------------ the arc test alone
\* isInScanArc applied to a scanner p1 and a target p2: the scanner's heading
\* and the target's offset from the scanner are drawn from small sets, the
\* arc angles are the call's arguments.  lastCall keeps the arguments and the
\* value returned.
MaxArcCalls == 2
ArcHeadings == {0, 90, 270}
ArcOffsets ==
  {<<100, 0>>, <<0 - 100, 0>>, <<0, 100>>, <<0, 0 - 100>>, <<100, 0 - 100>>,
   <<0 - 100, 0 - 50>>, <<0 - 100, 100>>, <<0, 0>>, <<0, 700>>, <<0, 701>>,
   <<0 - 100, 0 - 18>>, <<100, 58>>}
ArcAngles == {0, 30, 0 - 30, 90, 170, 0 - 170, 180, 270, 360, 0 - 190}
ArcScanner == <<400, 50>>

InitArc ==
  /\ \E h \in ArcHeadings, d \in ArcOffsets :
        tanks = [s \in {"p1", "p2"} |->
                   IF s = "p1"
                   THEN createTank("p1", LEN(ArcScanner[1]), LEN(ArcScanner[2]),
                                   h * TICK_RATE, "light")
                   ELSE createTank("p2", LEN(ArcScanner[1] + d[1]), LEN(ArcScanner[2] + d[2]),
                                   0, "light")]
  /\ t = 0
  /\ projectiles = {}
  /\ idCounter = 0
  /\ events = <<>>
  /\ tickCount = 0
  /\ calls = 0
  /\ lastCall = NoCall
  /\ accepted = [s \in DOMAIN tanks |-> {}]
  /\ NoMatch
  /\ other = NoOther

ArcTest ==
  /\ calls < MaxArcCalls
  /\ \E aDeg \in ArcAngles, bDeg \in ArcAngles :
        lastCall' = [slot |-> "p1", op |-> "isInScanArc",
                     ret |-> isInScanArc(tanks["p1"], tanks["p2"], aDeg, bDeg, SCAN_RANGE),
                     value |-> [aDeg |-> aDeg, bDeg |-> bDeg]]
  /\ calls' = calls + 1
  /\ UNCHANGED <<lobbyVars, driverLog, other, tanks, t, projectiles, idCounter, events, tickCount,
                 accepted, matchVars>>

NextArc == ArcTest

SpecArc == InitArc /\ [][NextArc]_vars

\* ------------------------------------------------ the match on the server
\* Wall-clock time is counted in wall units; one tick interval is
\* TICK_INTERVAL wall units and the watchdog delay is LOOP_TIMEOUT wall units.
TICK_INTERVAL == 1
LOOP_TIMEOUT == 4
MaxElapsed == 2
MaxApiCalls == 3
MaxApiCalls3 == 1
MaxNaps == 1
NAP == 1
MaxSpins == 2
STATE_BROADCAST_RATE == 1

MatchLineups == {<<"heavy", "light">>, <<"heavy", "light", "light">>}

\* what a player's program may call
ProgMenu ==
  {[op |-> "turnLeft", d |-> Deg(0), a |-> 0, b |-> 0, awaited |-> FALSE],
   [op |-> "moveForward", d |-> NoDeg, a |-> 0, b |-> 0, awaited |-> TRUE],
   [op |-> "scan", d |-> NoDeg, a |-> 0 - 30, b |-> 30, awaited |-> TRUE]}

Starter(c, s) ==
  CASE c.op = "turnLeft" -> turnLeft(tanks, t, s, c.d)
    [] c.op = "turnRight" -> turnRight(tanks, t, s, c.d)
    [] c.op = "moveForward" -> moveForward(tanks, t, s)
    [] c.op = "moveBackward" -> moveBackward(tanks, t, s)
    [] c.op = "scan" -> scan(tanks, t, s, c.a, c.b)

\* the host runs promise continuations before any timer callback
MicroReady ==
  \E s \in DOMAIN tanks :
     prog[s] = "ready" \/ (race[s] # Null /\ runPc[s] = "racing")
HostIdle == driverPc = "idle"

\* the continuations are run one slot after the other
Ready(s) == prog[s] = "ready" \/ (race[s] # Null /\ runPc[s] = "racing")
Turn(s) ==
  /\ HostIdle
  /\ \A i, j \in 1..Len(AllSlots) :
        (AllSlots[j] = s /\ i < j /\ AllSlots[i] \in DOMAIN tanks) => ~Ready(AllSlots[i])

\* the accepted calls explored in one match
ApiBudget == IF Cardinality(DOMAIN tanks) > 2 THEN MaxApiCalls3 ELSE MaxApiCalls

\* a race that nothing settles
SettleNever(rc, s, v) == rc
\* the first promise to settle decides the race
Settle(rc, s, v) ==
  IF rc[s] = Null /\ runPc[s] = "racing" THEN [rc EXCEPT ![s] = v] ELSE rc

\* tryStartMatch: the world is created, the runtimes are started (each run()
\* executes up to its first await) and the loop driver arms its first timer
StartMatch(lineups) ==
  /\ \E players \in lineups, off \in SpawnOffsets : InitWorld(players, off)
  /\ loopRunning = TRUE
  /\ accumulator = 0
  /\ sinceLast = 0
  /\ loopTimer = 0
  /\ driverPc = "idle"
  /\ pending = [s \in DOMAIN tanks |-> NoPending]
  /\ prog = [s \in DOMAIN tanks |-> "ready"]
  /\ race = [s \in DOMAIN tanks |-> Null]
  /\ runPc = [s \in DOMAIN tanks |-> "racing"]
  /\ rtRunning = [s \in DOMAIN tanks |-> TRUE]
  /\ rtError = [s \in DOMAIN tanks |-> Null]
  /\ watchdog = [s \in DOMAIN tanks |-> LOOP_TIMEOUT]
  /\ napTimer = [s \in DOMAIN tanks |-> NoTimer]
  /\ matchRunning = TRUE
  /\ broadcasts = <<MatchStartMsg>>
  /\ bcCount = 0
  /\ snapshots = 0
  /\ fulfils = {}
  /\ sinceStart = [s \in DOMAIN tanks |-> 0]
  /\ spins = [s \in DOMAIN tanks |-> 1]
  /\ naps = 0
  /\ lobby = [s \in SlotSet |-> IF s \in DOMAIN tanks THEN tanks[s].tankType ELSE "none"]
  /\ sent = <<>>
  /\ starts = <<[requester |-> "ws", ret |-> TRUE]>>
  /\ driverLog = <<>>
  /\ other = NoOther

InitMatch == StartMatch(MatchLineups)

\* timedAction storing the callback of a rejected call as well
timedActionOverwrites(s, c, r) ==
  /\ r.ok => calls < ApiBudget
  /\ tanks' = r.tanks
  /\ pending' = [pending EXCEPT ![s] =
                   [set |-> TRUE, isScan |-> c.op = "scan",
                    awaited |-> c.awaited, n |-> tickCount, type |-> c.op]]
  /\ prog' = IF r.ok /\ c.awaited THEN [prog EXCEPT ![s] = "awaiting"] ELSE prog
  /\ calls' = IF r.ok THEN calls + 1 ELSE calls
  /\ accepted' = Record(accepted, s, r, c.op)
  /\ sinceStart' = IF r.ok THEN [sinceStart EXCEPT ![s] = 0] ELSE sinceStart
  /\ lastCall' = [slot |-> s, op |-> c.op, ret |-> r.ok,
                  value |-> IF r.ok THEN "pending"
                            ELSE IF c.op = "scan" THEN "false" ELSE "undefined"]
  /\ UNCHANGED <<lobbyVars, driverLog, other, t, projectiles, idCounter, events, tickCount,
                 driverVars, race, runPc, rtRunning, rtError, watchdog,
                 napTimer, orchVars, fulfils, spins, naps>>

\* tankApi.js timedAction: the player's program calls a timed method; an
\* accepted call stores its callback in the mailbox, a rejected one returns
\* an already resolved promise
timedAction(s, c, r) ==
  LET awaited == c.awaited
  IN  /\ r.ok => calls < ApiBudget
      /\ tanks' = r.tanks
      /\ pending' = IF r.ok
                    THEN [pending EXCEPT ![s] =
                            [set |-> TRUE, isScan |-> c.op = "scan",
                             awaited |-> awaited, n |-> tickCount, type |-> c.op]]
                    ELSE pending
      /\ prog' = IF r.ok /\ awaited THEN [prog EXCEPT ![s] = "awaiting"] ELSE prog
      /\ calls' = IF r.ok THEN calls + 1 ELSE calls
      /\ accepted' = Record(accepted, s, r, c.op)
      /\ sinceStart' = IF r.ok THEN [sinceStart EXCEPT ![s] = 0] ELSE sinceStart
      /\ lastCall' = [slot |-> s, op |-> c.op, ret |-> r.ok,
                      value |-> IF r.ok THEN "pending"
                                ELSE IF c.op = "scan" THEN "false" ELSE "undefined"]
      /\ UNCHANGED <<lobbyVars, driverLog, other, t, projectiles, idCounter, events, tickCount,
                     driverVars, race, runPc, rtRunning, rtError, watchdog,
                     napTimer, orchVars, fulfils, spins, naps>>

PlayerTimed ==
  \E s \in DOMAIN tanks, c \in ProgMenu :
     /\ Turn(s)
     /\ prog[s] = "ready"
     /\ timedAction(s, c, Starter(c, s))

\* tankApi.js shoot
apiShoot(s, r) ==
  /\ r.ok
  /\ calls < ApiBudget
  /\ tanks' = r.tanks
  /\ projectiles' = r.projectiles
  /\ idCounter' = r.idCounter
  /\ calls' = calls + 1
  /\ UNCHANGED <<lobbyVars, driverLog, other, t, events, tickCount, lastCall, accepted, matchVars>>

PlayerShoot ==
  \E s \in DOMAIN tanks :
     /\ Turn(s)
     /\ prog[s] = "ready"
     /\ apiShoot(s, shoot(tanks, projectiles, idCounter, s))

\* the player's loop function returns or throws
PlayerEnds ==
  \E s \in DOMAIN tanks, how \in {"returned", "threw"} :
     /\ Turn(s)
     /\ prog[s] = "ready"
     /\ prog' = [prog EXCEPT ![s] = "none"]
     /\ race' = Settle(race, s, how)
     /\ UNCHANGED <<lobbyVars, driverLog, other, simVars, histVars, driverVars, pending, runPc, rtRunning,
                    rtError, watchdog, napTimer, orchVars, matchHistVars>>

\* the player's loop function awaits a promise of its own: one that never
\* settles, or a timer of NAP wall units (explored before the first call of a
\* match only)
PlayerWaits ==
  \E s \in DOMAIN tanks, how \in {"hung", "napping"} :
     /\ Turn(s)
     /\ prog[s] = "ready"
     /\ how = "napping" => (naps < MaxNaps /\ tickCount = 0 /\ calls = 0)
     /\ prog' = [prog EXCEPT ![s] = how]
     /\ naps' = IF how = "napping" THEN naps + 1 ELSE naps
     /\ napTimer' = IF how = "napping" THEN [napTimer EXCEPT ![s] = NAP] ELSE napTimer
     /\ UNCHANGED <<lobbyVars, driverLog, other, simVars, histVars, driverVars, pending, race, runPc, rtRunning,
                    rtError, watchdog, orchVars, fulfils, sinceStart, spins>>

\* the program's own timer fires
PlayerWakes ==
  \E s \in DOMAIN tanks :
     /\ HostIdle
     /\ ~MicroReady
     /\ napTimer[s] = 0
     /\ napTimer' = [napTimer EXCEPT ![s] = NoTimer]
     /\ prog' = [prog EXCEPT ![s] = "ready"]
     /\ spins' = [o \in DOMAIN tanks |-> 0]
     /\ UNCHANGED <<lobbyVars, driverLog, other, simVars, histVars, driverVars, pending, race, runPc, rtRunning,
                    rtError, watchdog, orchVars, fulfils, sinceStart, naps>>

ErrorMsg(s, kind) == [kind |-> "error", slot |-> s, winner |-> Null, reason |-> kind]
MatchEndMsg(winner, reason) ==
  [kind |-> "matchEnd", slot |-> Null, winner |-> winner, reason |-> reason]

\* matchManager.js onError: the forfeiting tank is taken out of the match
onErrorKeepsHp(tk, s) == [tk EXCEPT ![s].activeAction = NoAction]
onError(tk, s) == [tk EXCEPT ![s].hp = 0, ![s].activeAction = NoAction]

\* runPlayer.js run(): the continuation after the race settled
RunResume ==
  \E s \in DOMAIN tanks :
     LET res == race[s]
         again == res = "returned" /\ rtRunning[s]
         failed == res \in {"timeout", "threw"}
         \* matchManager.js onError: the tank forfeits while the match runs
         forfeit == failed /\ matchRunning
     IN  /\ Turn(s)
         /\ runPc[s] = "racing"
         /\ res # Null
         /\ race' = [race EXCEPT ![s] = Null]
         /\ watchdog' = [watchdog EXCEPT ![s] = IF again THEN LOOP_TIMEOUT ELSE NoTimer]
         /\ prog' = IF again THEN [prog EXCEPT ![s] = "ready"] ELSE prog
         /\ runPc' = IF again THEN runPc ELSE [runPc EXCEPT ![s] = "done"]
         /\ rtRunning' = [rtRunning EXCEPT ![s] = again]
         /\ rtError' = IF failed THEN [rtError EXCEPT ![s] = res] ELSE rtError
         /\ broadcasts' = IF failed THEN Append(broadcasts, ErrorMsg(s, res))
                          ELSE broadcasts
         /\ tanks' = IF forfeit THEN onError(tanks, s) ELSE tanks
         /\ pending' = IF forfeit THEN [pending EXCEPT ![s] = NoPending] ELSE pending
         /\ spins' = IF again THEN [spins EXCEPT ![s] = MinV(@ + 1, MaxSpins)] ELSE spins
         /\ sinceStart' = IF again THEN [sinceStart EXCEPT ![s] = 0] ELSE sinceStart
         /\ UNCHANGED <<lobbyVars, driverLog, other, t, projectiles, idCounter, events, tickCount, histVars,
                        driverVars, napTimer, matchRunning, bcCount, snapshots,
                        fulfils, naps>>

\* runPlayer.js createWatchdog: the timer fires
WatchdogFire ==
  \E s \in DOMAIN tanks :
     /\ HostIdle
     /\ ~MicroReady
     /\ watchdog[s] = 0
     /\ watchdog' = [watchdog EXCEPT ![s] = NoTimer]
     /\ race' = Settle(race, s, "timeout")
     /\ spins' = [o \in DOMAIN tanks |-> 0]
     /\ UNCHANGED <<lobbyVars, driverLog, other, simVars, histVars, driverVars, pending, prog, runPc, rtRunning,
                    rtError, napTimer, orchVars, fulfils, sinceStart, naps>>

Tick1(d) == IF d > 0 THEN d - 1 ELSE d

\* one wall unit passes while the host has nothing to run; the loop driver's
\* timer may be served late, by at most MaxElapsed wall units since lastTime
Elapse ==
  /\ HostIdle
  /\ ~MicroReady
  /\ \A s \in DOMAIN tanks : watchdog[s] # 0 /\ napTimer[s] # 0
  /\ IF loopRunning THEN sinceLast < MaxElapsed
                    ELSE \E s \in DOMAIN tanks : watchdog[s] > 0 \/ napTimer[s] > 0
  /\ sinceLast' = IF loopRunning THEN sinceLast + 1 ELSE sinceLast
  /\ loopTimer' = Tick1(loopTimer)
  /\ watchdog' = [s \in DOMAIN tanks |-> Tick1(watchdog[s])]
  /\ napTimer' = [s \in DOMAIN tanks |-> Tick1(napTimer[s])]
  /\ sinceStart' = [s \in DOMAIN tanks |-> MinV(sinceStart[s] + 1, LOOP_TIMEOUT)]
  /\ spins' = [s \in DOMAIN tanks |-> 0]
  /\ UNCHANGED <<lobbyVars, driverLog, other, simVars, histVars, loopRunning, accumulator, driverPc, pending,
                 prog, race, runPc, rtRunning, rtError, orchVars, fulfils, naps>>

\* the accumulator left as it is
NoCap(acc) == acc
\* loop.js tick(): if (accumulator > maxAccum) accumulator = maxAccum
CapAccumulator(acc) == MinV(acc, TICK_INTERVAL * 10)

\* loop.js tick(): the timer fires and the elapsed time is accumulated
WakeBegin ==
  /\ HostIdle
  /\ ~MicroReady
  /\ loopTimer = 0
  /\ loopRunning
  /\ accumulator' = CapAccumulator(accumulator + sinceLast)
  /\ sinceLast' = 0
  /\ loopTimer' = NoTimer
  /\ driverPc' = "wake"
  /\ spins' = [s \in DOMAIN tanks |-> 0]
  /\ UNCHANGED <<lobbyVars, driverLog, other, simVars, histVars, loopRunning, runtimeVars, orchVars, fulfils,
                 sinceStart, naps>>

\* loop.js tick(): the while loop is left and the next timer is armed
WakeEnd ==
  /\ driverPc = "wake"
  /\ ~(accumulator >= TICK_INTERVAL /\ loopRunning)
  /\ loopTimer' = IF loopRunning THEN MaxV(1, TICK_INTERVAL - accumulator) ELSE loopTimer
  /\ driverPc' = "idle"
  /\ UNCHANGED <<lobbyVars, driverLog, other, simVars, histVars, loopRunning, accumulator, sinceLast,
                 runtimeVars, orchVars, matchHistVars>>

\* a throttle one tick too slow
ticksPerBroadcastSlow == TICK_RATE \div STATE_BROADCAST_RATE + 1
\* Math.round(TICK_RATE / STATE_BROADCAST_RATE)
ticksPerBroadcast == (2 * TICK_RATE + STATE_BROADCAST_RATE) \div (2 * STATE_BROADCAST_RATE)

\* tankApi.js: what the stored callback resolves the promise with
FulfilValue(p, tank) ==
  IF p.isScan
  THEN IF tank.lastScanResult = Null THEN "false" ELSE tank.lastScanResult
  ELSE "undefined"

Fulfilment(s, p, tank, by) ==
  [slot |-> s, n |-> p.n, type |-> p.type, value |-> FulfilValue(p, tank), by |-> by]

HasEvent(evs, kind) == \E i \in 1..Len(evs) : evs[i].kind = kind
CompleteFor(evs, s) ==
  \E i \in 1..Len(evs) : evs[i].kind = "actionComplete" /\ evs[i].slot = s

\* runPlayer.js stop() for every slot of S
\* stop() leaving the runtimes running
StopRunningNone(S, rr) == rr
StopRunning(S, rr) == [s \in DOMAIN rr |-> IF s \in S THEN FALSE ELSE rr[s]]
\* stop() leaving the race of run() as it is
StopRaceNever(S, rc) == rc
StopRace(S, rc) ==
  [s \in DOMAIN rc |->
     IF s \in S /\ rc[s] = Null /\ runPc[s] = "racing" THEN "stopped" ELSE rc[s]]
\* the mailboxes left as they are
StopPendingKeeps(S, pd) == pd
StopPending(S, pd) == [s \in DOMAIN pd |-> IF s \in S THEN NoPending ELSE pd[s]]

\* loop.js tick(), the body of the while loop after step returned r: onTick
\* of matchManager.js (resolver, death handling, snapshot throttle), then the
\* match-end check with onMatchEnd -> endMatch.  threw: the broadcast of the
\* state snapshot, the last statement of onTick, raised an exception, which
\* the catch of tick() turns into onMatchEnd with reason "error".
onTickThen(r, threw) ==
  LET evs == r.events
      slots == DOMAIN tanks
      \* actionResolver.js resolveActions
      resolved == {s \in slots : CompleteFor(evs, s) /\ pending[s].set}
      pend1 == StopPending(resolved, pending)
      \* matchManager.js onTick: tanks that died with a running runtime
      died == {s \in slots : r.tanks[s].hp <= 0 /\ rtRunning[s]}
      dresolved == {s \in died : pend1[s].set}
      woken == {s \in resolved \cup dresolved : pending[s].awaited}
      ended == threw \/ HasEvent(evs, "matchEnd")
      endEv == IF threw THEN [winner |-> Null, reason |-> "error"]
               ELSE evs[CHOOSE i \in 1..Len(evs) : evs[i].kind = "matchEnd"]
      stopped == IF ended THEN slots ELSE died
      nb == bcCount + 1
  IN  /\ tanks' = r.tanks
      /\ projectiles' = r.projectiles
      /\ t' = r.t
      /\ events' = evs
      /\ tickCount' = tickCount + 1
      /\ accepted' = Forget(accepted, tickCount + 1)
      /\ fulfils' = {Fulfilment(s, pending[s], r.tanks[s], "resolver") : s \in resolved}
                    \cup {Fulfilment(s, pending[s], r.tanks[s], "death") : s \in dresolved}
      /\ prog' = [s \in slots |-> IF s \in woken THEN "ready" ELSE prog[s]]
      /\ pending' = StopPending(stopped, pend1)
      /\ rtRunning' = StopRunning(stopped, rtRunning)
      /\ race' = StopRace(stopped, race)
      /\ bcCount' = IF nb >= ticksPerBroadcast THEN 0 ELSE nb
      /\ threw => nb >= ticksPerBroadcast
      /\ snapshots' = IF nb >= ticksPerBroadcast /\ ~threw THEN snapshots + 1 ELSE snapshots
      /\ matchRunning' = (matchRunning /\ ~ended)
      /\ loopRunning' = ~ended
      /\ broadcasts' = IF ended
                       THEN Append(broadcasts, MatchEndMsg(endEv.winner, endEv.reason))
                       ELSE broadcasts
      /\ accumulator' = IF ended THEN accumulator ELSE accumulator - TICK_INTERVAL
      /\ driverPc' = IF ended THEN "idle" ELSE "wake"
      /\ UNCHANGED <<lobbyVars, driverLog, other, idCounter, calls, lastCall, sinceLast, loopTimer, runPc, rtError,
                     watchdog, napTimer, sinceStart, spins, naps>>

onTick(r) == onTickThen(r, FALSE)

WakeStep ==
  /\ driverPc = "wake"
  /\ accumulator >= TICK_INTERVAL
  /\ loopRunning
  /\ \E r \in {step(tanks, projectiles, t)} : onTick(r)

\* matchManager.js stopMatch -> endMatch(null, "aborted")
StopMatch ==
  /\ HostIdle
  /\ ~MicroReady
  /\ matchRunning
  /\ matchRunning' = FALSE
  /\ loopRunning' = FALSE
  /\ loopTimer' = NoTimer
  /\ rtRunning' = StopRunning(DOMAIN tanks, rtRunning)
  /\ race' = StopRace(DOMAIN tanks, race)
  /\ pending' = StopPending(DOMAIN tanks, pending)
  /\ broadcasts' = Append(broadcasts, MatchEndMsg(Null, "aborted"))
  /\ spins' = [s \in DOMAIN tanks |-> 0]
  /\ UNCHANGED <<lobbyVars, driverLog, other, simVars, histVars, accumulator, sinceLast, driverPc, prog, runPc,
                 rtError, watchdog, napTimer, bcCount, snapshots, fulfils, sinceStart,
                 naps>>

NextMatch ==
  \/ PlayerTimed
  \/ PlayerShoot
  \/ PlayerEnds
  \/ PlayerWaits
  \/ PlayerWakes
  \/ RunResume
  \/ WatchdogFire
  \/ Elapse
  \/ WakeBegin
  \/ WakeStep
  \/ WakeEnd
  \/ StopMatch

SpecMatch == InitMatch /\ [][NextMatch]_vars

\* The host serves what is runnable: promise continuations (the player's
\* program, run()), then due timers (the watchdog, a program's own timer, the
\* loop driver's wake), and wall-clock time passes.  Nothing is assumed about
\* a stop requested from outside.
ProgramYields == PlayerEnds \/ PlayerWaits
LiveLineups == {<<"heavy", "light">>}
SpecMatchLive ==
  /\ StartMatch(LiveLineups)
  /\ [][NextMatch]_vars
  /\ WF_vars(ProgramYields)
  /\ WF_vars(RunResume)
  /\ WF_vars(WatchdogFire)
  /\ WF_vars(PlayerWakes)
  /\ WF_vars(Elapse)
  /\ WF_vars(WakeBegin)
  /\ WF_vars(WakeStep)
  /\ WF_vars(WakeEnd)

\* ------------------------------------------------ the loop driver alone
\* startLoop of loop.js with a world and callbacks of any kind: step returns
\* events without or with a matchEnd, or throws; onTick returns, calls stop()
\* of the loop handle and returns, or throws; onMatchEnd returns.  The host
\* may serve the driver's timer late by up to MaxLoopElapsed wall units, and
\* may call stop() between two wakes.  driverLog lists the calls made by the
\* wake in progress (or by the last one) after an entry for the wake itself,
\* which keeps the time accumulated before the cap, and the calls of stop()
\* since.
MaxLoopSteps == 12
MaxLoopElapsed == 12
MaxLoopStops == 2
StepOutcomes == {"plain", "matchEnd", "throws"}
OnTickOutcomes == {"returns", "stops", "throws"}

Called(call, n, arg) == [call |-> call, n |-> n, arg |-> arg]
StopCalls == Cardinality({i \in 1..Len(driverLog) : driverLog[i].call = "stop"})

InitLoop ==
  /\ tanks = << >>
  /\ t = 0
  /\ projectiles = {}
  /\ idCounter = 0
  /\ events = <<>>
  /\ tickCount = 0
  /\ calls = 0
  /\ lastCall = NoCall
  /\ accepted = << >>
  /\ other = NoOther
  /\ pending = << >> /\ prog = << >> /\ race = << >> /\ runPc = << >>
  /\ rtRunning = << >> /\ rtError = << >> /\ watchdog = << >> /\ napTimer = << >>
  /\ matchRunning = FALSE /\ broadcasts = <<>> /\ bcCount = 0 /\ snapshots = 0
  /\ fulfils = {} /\ sinceStart = << >> /\ spins = << >> /\ naps = 0
  /\ lobby = [s \in SlotSet |-> "none"] /\ sent = <<>> /\ starts = <<>>
  \* startLoop: running = true, accumulator = 0, timer = setTimeout(tick, 0)
  /\ loopRunning = TRUE
  /\ accumulator = 0
  /\ sinceLast = 0
  /\ loopTimer = 0
  /\ driverPc = "idle"
  /\ driverLog = <<>>

\* one wall unit passes between two wakes
LoopElapse ==
  /\ driverPc = "idle"
  /\ loopRunning
  /\ sinceLast < MaxLoopElapsed
  /\ sinceLast' = sinceLast + 1
  /\ loopTimer' = Tick1(loopTimer)
  /\ UNCHANGED <<simVars, histVars, loopRunning, accumulator, driverPc, runtimeVars,
                 orchVars, matchHistVars, lobbyVars, other, driverLog>>

\* loop.js tick(): the timer fires and the elapsed time is accumulated
LoopWake ==
  /\ driverPc = "idle"
  /\ loopTimer = 0
  /\ loopRunning
  /\ accumulator' = CapAccumulator(accumulator + sinceLast)
  /\ sinceLast' = 0
  /\ loopTimer' = NoTimer
  /\ driverPc' = "wake"
  /\ driverLog' = <<Called("wake", tickCount, accumulator + sinceLast)>>
  /\ UNCHANGED <<simVars, histVars, loopRunning, runtimeVars, orchVars, matchHistVars,
                 lobbyVars, other>>

\* the pass whose exception is swallowed without a call of onMatchEnd
BodyCallsSilent(n, so, to) ==
  IF so = "throws"
  THEN <<Called("step", n, so)>>
  ELSE <<Called("step", n, so), Called("onTick", n, so)>>
         \o (IF to = "stops" THEN <<Called("stop", n, "onTick")>> ELSE <<>>)
         \o (IF to = "throws" THEN <<>>
             ELSE IF so = "matchEnd" THEN <<Called("onMatchEnd", n, so)>>
             ELSE <<>>)
\* what one pass through the while loop of tick() calls, in order
BodyCalls(n, so, to) ==
  IF so = "throws"
  THEN <<Called("step", n, so), Called("onMatchEnd", n, "error")>>
  ELSE <<Called("step", n, so), Called("onTick", n, so)>>
         \o (IF to = "stops" THEN <<Called("stop", n, "onTick")>> ELSE <<>>)
         \o (IF to = "throws" THEN <<Called("onMatchEnd", n, "error")>>
             ELSE IF so = "matchEnd" THEN <<Called("onMatchEnd", n, so)>>
             ELSE <<>>)

\* loop.js tick(): one pass through the while loop; returns: the outcomes
\* after which tick() returns at once
LoopPass(returns) ==
  /\ driverPc = "wake"
  /\ accumulator >= TICK_INTERVAL
  /\ loopRunning
  /\ tickCount < MaxLoopSteps
  /\ \E so \in StepOutcomes, to \in OnTickOutcomes :
        LET returned == so = "throws" \/ to = "throws" \/ so \in returns
        IN  /\ so = "throws" => to = "returns"
            /\ driverLog' = driverLog \o BodyCalls(tickCount + 1, so, to)
            /\ events' = IF so = "matchEnd"
                          THEN <<Ev("matchEnd", Null, Null, Null, Null, Null, Null, "time")>>
                          ELSE <<>>
            /\ t' = IF so = "throws" THEN t ELSE t + DT
            /\ loopRunning' = ~(returned \/ to = "stops")
            /\ accumulator' = IF returned THEN accumulator ELSE accumulator - TICK_INTERVAL
            /\ driverPc' = IF returned THEN "idle" ELSE "wake"
  /\ tickCount' = tickCount + 1
  /\ UNCHANGED <<tanks, projectiles, idCounter, histVars, sinceLast, loopTimer,
                 runtimeVars, orchVars, matchHistVars, lobbyVars, other>>

\* the pass that goes on after a matchEnd
LoopBodyRunsOn == LoopPass({})
LoopBody == LoopPass({"matchEnd"})

\* loop.js stop() of the handle, called by the host between two wakes
LoopStop ==
  /\ driverPc = "idle"
  /\ StopCalls < MaxLoopStops
  /\ loopRunning' = FALSE
  /\ loopTimer' = NoTimer
  /\ driverLog' = Append(driverLog, Called("stop", tickCount, "host"))
  /\ UNCHANGED <<simVars, histVars, accumulator, sinceLast, driverPc, runtimeVars,
                 orchVars, matchHistVars, lobbyVars, other>>

NextLoop ==
  \/ LoopElapse
  \/ LoopWake
  \/ LoopBody
  \/ WakeEnd
  \/ LoopStop

SpecLoop == InitLoop /\ [][NextLoop]_vars

\* A match in which the driver may fail: the broadcast of a state snapshot
\* raises an exception inside tick().
EndLineups == {<<"heavy", "light">>}

WakeThrows ==
  /\ driverPc = "wake"
  /\ accumulator >= TICK_INTERVAL
  /\ loopRunning
  /\ \E r \in {step(tanks, projectiles, t)} : onTickThen(r, TRUE)

NextEnd ==
  \/ PlayerTimed
  \/ PlayerShoot
  \/ PlayerEnds
  \/ PlayerWaits
  \/ PlayerWakes
  \/ RunResume
  \/ WatchdogFire
  \/ Elapse
  \/ WakeBegin
  \/ WakeStep
  \/ WakeThrows
  \/ WakeEnd
  \/ StopMatch

SpecEnd == StartMatch(EndLineups) /\ [][NextEnd]_vars

\* ------------------------------------------------ the start of a match
\* A client submits or clears its code, a client asks for the start
\* (tryStartMatch), the started programs wait, the match is stopped.
MaxStarts == 2
CodeKinds == {"light", "heavy", "syntax", "badType", "noLoop"}
Requesters == {Null, "ws"}

\* runPlayer.js loadPlayerCode without the check of the loop export
loadPlayerCodeAnyLoop(code) ==
  IF code \in {"light", "heavy"} THEN [ok |-> TRUE, tankType |-> code]
  ELSE IF code = "noLoop" THEN [ok |-> TRUE, tankType |-> "light"]
  ELSE [ok |-> FALSE, tankType |-> Null]
\* runPlayer.js loadPlayerCode: the script is compiled and run, then the
\* tankType export and the loop export are validated; a code of kind "light"
\* or "heavy" is a valid program of that class
loadPlayerCode(code) ==
  IF code \in {"light", "heavy"} THEN [ok |-> TRUE, tankType |-> code]
  ELSE [ok |-> FALSE, tankType |-> Null]

\* world.js createWorld for the players of the given slots
createWorldFor(slots, types, angleOffset) ==
  LET n == Len(slots)
      cx == ARENA_WIDTH \div 2
      cy == ARENA_HEIGHT \div 2
      radius == (MinV(cx, cy) * 55) \div 100
      angle(i) == angleOffset + (FULL * (i - 1)) \div n
  IN  [s \in {slots[i] : i \in 1..n} |->
         LET i == CHOOSE j \in 1..n : slots[j] = s
         IN  createTank(s,
                        cx + DivT(CosQ(angle(i)) * radius, TRIG),
                        cy + DivT(SinQ(angle(i)) * radius, TRIG),
                        JsMod(angle(i) + 180 * TICK_RATE, FULL),
                        types[i])]

InitStart ==
  /\ tanks = << >>
  /\ t = 0
  /\ projectiles = {}
  /\ idCounter = 0
  /\ events = <<>>
  /\ tickCount = 0
  /\ calls = 0
  /\ lastCall = NoCall
  /\ accepted = << >>
  /\ NoMatch
  /\ other = NoOther

\* index.js handleSubmitTank -> lobby.js setCode
SubmitCode ==
  \E s \in SlotSet, code \in CodeKinds :
     /\ HostIdle
     /\ ~MicroReady
     /\ Len(starts) < MaxStarts
     /\ lobby' = [lobby EXCEPT ![s] = code]
     /\ UNCHANGED <<simVars, histVars, matchVars, sent, starts, other, driverLog>>

\* index.js handleClearTank -> lobby.js clearCode
ClearCode ==
  \E s \in SlotSet :
     /\ HostIdle
     /\ ~MicroReady
     /\ Len(starts) < MaxStarts
     /\ lobby' = [lobby EXCEPT ![s] = "none"]
     /\ UNCHANGED <<simVars, histVars, matchVars, sent, starts, other, driverLog>>

StartError(s, reason) == [kind |-> "error", slot |-> s, reason |-> reason]
Reply(requester, msg) == IF requester = Null THEN sent ELSE Append(sent, msg)

\* matchManager.js tryStartMatch, returning false
Refused(requester, msg) ==
  /\ sent' = Reply(requester, msg)
  /\ starts' = Append(starts, [requester |-> requester, ret |-> FALSE])
  /\ UNCHANGED <<simVars, histVars, matchVars, lobby, other, driverLog>>

\* matchManager.js tryStartMatch, steps 2 to 7: the world is created, the loop
\* driver arms its first timer, the runtimes are started (each run() executes
\* up to its first await), matchStart is broadcast
Started(requester, tk) ==
  /\ tanks' = tk
  /\ t' = 0
  /\ projectiles' = {}
  /\ idCounter' = 0
  /\ events' = <<>>
  /\ tickCount' = 0
  /\ calls' = 0
  /\ lastCall' = NoCall
  /\ accepted' = [s \in DOMAIN tk |-> {}]
  /\ loopRunning' = TRUE
  /\ accumulator' = 0
  /\ sinceLast' = 0
  /\ loopTimer' = 0
  /\ driverPc' = "idle"
  /\ pending' = [s \in DOMAIN tk |-> NoPending]
  /\ prog' = [s \in DOMAIN tk |-> "ready"]
  /\ race' = [s \in DOMAIN tk |-> Null]
  /\ runPc' = [s \in DOMAIN tk |-> "racing"]
  /\ rtRunning' = [s \in DOMAIN tk |-> TRUE]
  /\ rtError' = [s \in DOMAIN tk |-> Null]
  /\ watchdog' = [s \in DOMAIN tk |-> LOOP_TIMEOUT]
  /\ napTimer' = [s \in DOMAIN tk |-> NoTimer]
  /\ matchRunning' = TRUE
  /\ broadcasts' = Append(broadcasts, MatchStartMsg)
  /\ bcCount' = 0
  /\ fulfils' = {}
  /\ sinceStart' = [s \in DOMAIN tk |-> 0]
  /\ spins' = [s \in DOMAIN tk |-> 1]
  /\ naps' = 0
  /\ starts' = Append(starts, [requester |-> requester, ret |-> TRUE])
  /\ UNCHANGED <<snapshots, lobby, sent, other, driverLog>>

readyEntries == SelectSeq(AllSlots, LAMBDA s : lobby[s] # "none")
FailedLoads(ready) == {i \in 1..Len(ready) : ~loadPlayerCode(lobby[ready[i]]).ok}
FirstFailed(ready) ==
  ready[CHOOSE i \in FailedLoads(ready) : \A j \in FailedLoads(ready) : i <= j]

\* matchManager.js tryStartMatch
TryStartMatch ==
  \E requester \in Requesters, off \in SpawnOffsets :
     /\ HostIdle
     /\ ~MicroReady
     /\ Len(starts) < MaxStarts
     /\ IF matchRunning
        THEN Refused(requester, StartError(Null, "inProgress"))
        ELSE IF Len(readyEntries) < 2
        THEN Refused(requester, StartError(Null, "needTwo"))
        ELSE IF FailedLoads(readyEntries) # {}
        THEN Refused(requester,
                     StartError(FirstFailed(readyEntries),
                                lobby[FirstFailed(readyEntries)]))
        ELSE Started(requester,
                     createWorldFor(readyEntries,
                                    [i \in 1..Len(readyEntries) |->
                                       loadPlayerCode(lobby[readyEntries[i]]).tankType],
                                    off))

NextStart ==
  \/ SubmitCode
  \/ ClearCode
  \/ TryStartMatch
  \/ PlayerWaits
  \/ RunResume
  \/ StopMatch

SpecStart == InitStart /\ [][NextStart]_vars

\* A match of programs that do not await every call: a timed method called
\* while the action of an earlier call is still in flight.
BusyLineups == {<<"heavy", "light">>}
BusyMenu ==
  {[op |-> "moveForward", d |-> NoDeg, a |-> 0, b |-> 0, awaited |-> FALSE],
   [op |-> "turnRight", d |-> NoDeg, a |-> 0, b |-> 0, awaited |-> TRUE],
   [op |-> "scan", d |-> NoDeg, a |-> 0 - 30, b |-> 30, awaited |-> TRUE]}

PlayerTimedBusy ==
  \E s \in DOMAIN tanks, c \in BusyMenu :
     /\ Turn(s)
     /\ prog[s] = "ready"
     /\ timedAction(s, c, Starter(c, s))

NextBusy ==
  \/ PlayerTimedBusy
  \/ PlayerShoot
  \/ PlayerEnds
  \/ PlayerWaits
  \/ PlayerWakes
  \/ RunResume
  \/ WatchdogFire
  \/ Elapse
  \/ WakeBegin
  \/ WakeStep
  \/ WakeEnd
  \/ StopMatch

SpecBusy == StartMatch(BusyLineups) /\ [][NextBusy]_vars

\* A match of programs that use the internal accessors of the Tank API
\* object they are handed: _resolvePending (a getter returning the stored
\* callback, which the program then calls) and _clearPending.
HookLineups == {<<"heavy", "light">>}
HookMenu ==
  {[op |-> "moveForward", d |-> NoDeg, a |-> 0, b |-> 0, awaited |-> FALSE],
   [op |-> "scan", d |-> NoDeg, a |-> 0 - 30, b |-> 30, awaited |-> TRUE]}

PlayerTimedHook ==
  \E s \in DOMAIN tanks, c \in HookMenu :
     /\ Turn(s)
     /\ prog[s] = "ready"
     /\ timedAction(s, c, Starter(c, s))

\* the program evaluates tank._resolvePending()
PlayerResolvesPending ==
  \E s \in DOMAIN tanks :
     /\ Turn(s)
     /\ prog[s] = "ready"
     /\ pending[s].set
     /\ fulfils' = fulfils \cup {Fulfilment(s, pending[s], tanks[s], "player")}
     /\ UNCHANGED <<lobbyVars, driverLog, other, simVars, histVars, driverVars, runtimeVars,
                    orchVars, sinceStart, spins, naps>>

\* the program evaluates tank._clearPending()
PlayerClearsPending ==
  \E s \in DOMAIN tanks :
     /\ Turn(s)
     /\ prog[s] = "ready"
     /\ pending[s].set
     /\ pending' = [pending EXCEPT ![s] = NoPending]
     /\ UNCHANGED <<lobbyVars, driverLog, other, simVars, histVars, driverVars, prog, race, runPc,
                    rtRunning, rtError, watchdog, napTimer, orchVars, matchHistVars>>

NextHook ==
  \/ PlayerTimedHook
  \/ PlayerResolvesPending
  \/ PlayerClearsPending
  \/ PlayerEnds
  \/ PlayerWaits
  \/ PlayerWakes
  \/ RunResume
  \/ WatchdogFire
  \/ Elapse
  \/ WakeBegin
  \/ WakeStep
  \/ WakeEnd
  \/ StopMatch

SpecHook == StartMatch(HookLineups) /\ [][NextHook]_vars

\* ---------------------------------------------------------------- claims
TimedOps == {"turnLeft", "turnRight", "moveForward", "moveBackward", "scan"}
Pose(tank) == <<tank.x, tank.y, tank.headingDeg>>
IsStep == tickCount' = tickCount + 1
Completes(evs, s, ty) ==
  \E i \in 1..Len(evs) :
     evs[i].kind = "actionComplete" /\ evs[i].slot = s /\ evs[i].actionType = ty

\* C1 (as claimed): a timed action accepted after n ticks with duration D emits
\* its actionComplete in exactly the smallest tick m > n with
\* (m - n) * dt >= D - epsilon and in no other tick, and the tank receives a
\* per-tick increment of that action in exactly the ticks n+1 .. m.
C1_DurationLaw ==
  [][IsStep =>
       \A s \in DOMAIN tanks :
          /\ \A r \in accepted[s] :
                /\ DueTick(r.n, r.D) = tickCount' => Completes(events', s, r.type)
                /\ Pose(tanks'[s]) =
                     Pose(Increment([tanks[s] EXCEPT !.activeAction.type = r.type]))
          /\ \A i \in 1..Len(events') :
                (events'[i].kind = "actionComplete" /\ events'[i].slot = s)
                  => \E r \in accepted[s] :
                        /\ r.type = events'[i].actionType
                        /\ DueTick(r.n, r.D) = tickCount'
          /\ accepted[s] = {} => Pose(tanks'[s]) = Pose(tanks[s])]_vars

\* the law restricted to a tank that is alive and whose action was not replaced
C1_LawAliveUnreplaced ==
  [][IsStep =>
       \A s \in DOMAIN tanks :
          (tanks[s].hp > 0 /\ Cardinality(accepted[s]) <= 1) =>
          /\ \A r \in accepted[s] :
                /\ DueTick(r.n, r.D) = tickCount' <=> Completes(events', s, r.type)
                /\ Pose(tanks'[s]) =
                     Pose(Increment([tanks[s] EXCEPT !.activeAction.type = r.type]))
          /\ accepted[s] = {} =>
                /\ Pose(tanks'[s]) = Pose(tanks[s])
                /\ \A ty \in TimedOps : ~Completes(events', s, ty)]_vars

\* C9 (as claimed): while a tank's activeAction is non-null every timed
\* starter called for it returns false and leaves its busyUntil and its
\* activeAction unchanged.
C9_OneActionAtATime ==
  [][\A s \in DOMAIN tanks :
        (/\ calls' = calls + 1
         /\ lastCall'.slot = s
         /\ lastCall'.op \in TimedOps
         /\ tanks[s].activeAction # NoAction)
        => /\ lastCall'.ret = FALSE
           /\ tanks'[s].busyUntil = tanks[s].busyUntil
           /\ tanks'[s].activeAction = tanks[s].activeAction]_vars

\* C10 (as claimed), invariant I1: for every alive tank, busyUntil >= t iff
\* activeAction is non-null.
C10_I1 ==
  \A s \in DOMAIN tanks :
     tanks[s].hp > 0 => (tanks[s].busyUntil >= t <=> tanks[s].activeAction # NoAction)

\* C10 (amended): for every alive tank, a non-null activeAction implies
\* busyUntil >= t, and busyUntil > t + epsilon implies a non-null activeAction.
C10_I1Amended ==
  \A s \in DOMAIN tanks :
     tanks[s].hp > 0 =>
       /\ tanks[s].activeAction # NoAction => tanks[s].busyUntil >= t
       /\ tanks[s].busyUntil > t + EPSILON => tanks[s].activeAction # NoAction

C10_Witness ==
  \E s \in DOMAIN tanks :
     /\ tanks[s].hp > 0
     /\ tickCount >= 2
     /\ tanks[s].activeAction # NoAction
     /\ tanks[s].busyUntil > t + EPSILON
     /\ \E o \in DOMAIN tanks :
           tanks[o].hp > 0 /\ tanks[o].activeAction = NoAction /\ tanks[o].busyUntil = t


\* C2 (as claimed): in every wake, a player's task resumed by the resolver in
\* tick n (its runtime running) has run, and so has started its next timed
\* action, before step is called for tick n+1.
C2_OrderingAcrossTicks ==
  [][IsStep =>
       \A f \in fulfils :
          (f.by = "resolver" /\ rtRunning[f.slot]) => prog[f.slot] # "ready"]_vars

\* C3 (as claimed): the watchdog is re-armed on every accepted timed action:
\* a timeout is reported for a slot only when LOOP_TIMEOUT has elapsed since
\* its last accepted timed action (or the start of the loop invocation).
C3_WatchdogRearm ==
  [][\A s \in DOMAIN tanks :
        (rtError[s] = Null /\ rtError'[s] = "timeout")
          => sinceStart[s] >= LOOP_TIMEOUT]_vars

\* C4 (as claimed): a runtime yields to the host between two successive
\* invocations of the player's loop function: no slot has two invocations
\* started without the host having been given control in between.
C4_YieldBetweenInvocations == \A s \in DOMAIN tanks : spins[s] <= 1

\* the callback of the accepted action r of slot s is invoked in this onTick
\* with the value that this tick's actionComplete event carries
FulfilledNow(s, r) ==
  \E f \in fulfils' :
     /\ f.slot = s /\ f.n = r.n /\ f.type = r.type
     /\ \E i \in 1..Len(events') :
           /\ events'[i].kind = "actionComplete" /\ events'[i].slot = s
           /\ events'[i].actionType = r.type
           /\ f.value = IF r.type = "scan" THEN events'[i].scanResult ELSE "undefined"

\* C5 (as claimed): every timed action accepted for a tank that stays alive
\* and whose runtime keeps running has its callback invoked exactly once, in
\* the onTick of the tick in which it is due and in no other tick; a scan is
\* fulfilled with the scanResult computed in that tick.
C5_ExactlyOnce ==
  [][IsStep =>
       \A s \in DOMAIN tanks :
          (tanks'[s].hp > 0 /\ rtRunning'[s]) =>
             /\ \A r \in accepted[s] :
                   DueTick(r.n, r.D) = tickCount' => FulfilledNow(s, r)
             /\ \A f \in fulfils' :
                   f.slot = s => \E r \in accepted[s] :
                      /\ r.n = f.n /\ r.type = f.type
                      /\ DueTick(r.n, r.D) = tickCount']_vars

\* the same for tanks with at most one accepted action outstanding
C5_ExactlyOnceUnreplaced ==
  [][IsStep =>
       \A s \in DOMAIN tanks :
          (tanks'[s].hp > 0 /\ rtRunning'[s] /\ Cardinality(accepted[s]) <= 1) =>
             /\ \A r \in accepted[s] :
                   DueTick(r.n, r.D) = tickCount' => FulfilledNow(s, r)
             /\ \A f \in fulfils' :
                   f.slot = s => \E r \in accepted[s] :
                      /\ r.n = f.n /\ r.type = f.type
                      /\ DueTick(r.n, r.D) = tickCount']_vars

Dies(s) == tanks[s].hp > 0 /\ tanks'[s].hp <= 0
NullLike(p) == IF p.isScan THEN {"undefined", "false"} ELSE {"undefined"}

\* C6 (as claimed): once a tank's hp is 0 its pose never changes, and the
\* callback pending when it dies (and not completed by that tick) is invoked
\* exactly once, with undefined, or false for a scan.
C6_DeathQuiescence ==
  [][\A s \in DOMAIN tanks :
        /\ tanks[s].hp <= 0 => Pose(tanks'[s]) = Pose(tanks[s])
        /\ (Dies(s) /\ pending[s].set /\ ~(IsStep /\ CompleteFor(events', s)))
             => \E f \in fulfils' :
                   /\ f.slot = s /\ f.n = pending[s].n /\ f.type = pending[s].type
                   /\ f.value \in NullLike(pending[s])]_vars

\* only the pose part of C6
C6_PoseFrozen ==
  [][\A s \in DOMAIN tanks :
        tanks[s].hp <= 0 => Pose(tanks'[s]) = Pose(tanks[s])]_vars

\* C7 (as claimed): after the onTick of the tick in which a hit takes a tank's
\* hp to 0 its runtime is not running and its mailbox is empty, and from then
\* on the mailbox stays empty and no error is reported for the slot.
C7_DeathHandling ==
  [][\A s \in DOMAIN tanks :
        (tanks'[s].hp <= 0 /\ rtError[s] = Null /\ (tanks[s].hp > 0 => IsStep))
          => (~rtRunning'[s] /\ ~pending'[s].set /\ rtError'[s] = Null)]_vars

AliveSet(tk) == {s \in DOMAIN tk : tk[s].hp > 0}
Forfeited == {s \in DOMAIN tanks : rtError[s] # Null}
EndsWith(evs, winner, reason) ==
  \E i \in 1..Len(evs) :
     evs[i].kind = "matchEnd" /\ evs[i].winner = winner /\ evs[i].reason = reason

\* the step in which the error of slot s is reported touches only s: its tank
\* gets hp = 0 and its runtime stops, the other tanks and runtimes, the loop
\* driver and the match keep their state
ForfeitIsolated ==
  \A s \in DOMAIN tanks :
     (rtError[s] = Null /\ rtError'[s] # Null /\ matchRunning) =>
        /\ tanks'[s].hp = 0
        /\ ~rtRunning'[s]
        /\ \A o \in DOMAIN tanks \ {s} :
              tanks'[o] = tanks[o] /\ rtRunning'[o] = rtRunning[o]
        /\ loopRunning' = loopRunning
        /\ matchRunning'

\* C8 (as claimed): a forfeit touches only the forfeiting slot, and the match
\* then ends only through the match-end check of step: with one other tank
\* alive the next tick emits matchEnd with that tank as winner, with two or
\* more the match continues and ends with reason hp when one survivor remains.
C8_ForfeitIsolation ==
  [][/\ ForfeitIsolated
     /\ (IsStep /\ Forfeited # {}) =>
          /\ \A w \in DOMAIN tanks :
                AliveSet(tanks) = {w} => EndsWith(events', w, "hp")
          /\ \A w \in DOMAIN tanks :
                AliveSet(tanks') = {w} => EndsWith(events', w, "hp")
          /\ (Cardinality(AliveSet(tanks')) >= 2 /\ t' < MATCH_TIME_LIMIT)
                => (~HasEvent(events', "matchEnd") /\ matchRunning')]_vars

\* C8 (amended): a forfeit touches only the forfeiting slot; after a forfeit
\* every tick that leaves exactly one tank alive emits matchEnd with that tank
\* as winner and reason hp, a tick that leaves none alive emits matchEnd with
\* no winner and reason double_ko, and while two or more are alive before the
\* time limit the match continues.
C8_ForfeitIsolationAmended ==
  [][/\ ForfeitIsolated
     /\ (IsStep /\ Forfeited # {}) =>
          /\ \A w \in DOMAIN tanks :
                AliveSet(tanks') = {w} => (EndsWith(events', w, "hp") /\ ~matchRunning')
          /\ AliveSet(tanks') = {} => EndsWith(events', Null, "double_ko")
          /\ (Cardinality(AliveSet(tanks')) >= 2 /\ t' < MATCH_TIME_LIMIT)
                => (~HasEvent(events', "matchEnd") /\ matchRunning')]_vars

\* three players: one threw, the match went on with two tanks alive, a second
\* one timed out, and the next tick ended the match with the survivor as winner
C8_Witness ==
  /\ Cardinality(DOMAIN tanks) = 3
  /\ \E a, b, w \in DOMAIN tanks :
        /\ rtError[a] = "threw" /\ rtError[b] = "timeout"
        /\ tanks[a].hp = 0 /\ tanks[b].hp = 0 /\ tanks[w].hp > 0
        /\ Len(broadcasts) = 4
        /\ broadcasts[2] = ErrorMsg(a, "threw")
        /\ broadcasts[3] = ErrorMsg(b, "timeout")
        /\ broadcasts[4] = MatchEndMsg(w, "hp")
  /\ tickCount >= 2
  /\ ~matchRunning

OwnedBy(projs, s) == {p \in projs : p.owner = s}
Removed(evs, s) ==
  \E i \in 1..Len(evs) : evs[i].kind \in {"hit", "despawn"} /\ evs[i].slot = s
IsShootCall(s) == calls' = calls + 1 /\ lastCall'.op = "shoot" /\ lastCall'.slot = s

\* C11, single-shot invariant: for each slot, at most one projectile of the
\* world has that slot as owner.
C11_SingleShot ==
  \A s \in DOMAIN tanks : Cardinality(OwnedBy(projectiles, s)) <= 1

\* a shoot was just rejected, after some ticks, for a tank whose projectile is
\* in flight
C11_Witness ==
  /\ tickCount > 0
  /\ lastCall.op = "shoot" /\ ~lastCall.ret
  /\ Cardinality(OwnedBy(projectiles, lastCall.slot)) = 1

\* C12, invariant I2: a tank's activeProjectileId is non-null iff the
\* projectile map holds a projectile with that id owned by the tank's slot,
\* and every projectile of the map is referenced by its owner's
\* activeProjectileId.
C12_I2 ==
  /\ \A s \in DOMAIN tanks :
        tanks[s].activeProjectileId # NoProj
          <=> \E p \in projectiles :
                 p.id = tanks[s].activeProjectileId /\ p.owner = s
  /\ \A p \in projectiles :
        p.owner \in DOMAIN tanks /\ tanks[p.owner].activeProjectileId = p.id
  /\ \A p, q \in projectiles : p.id = q.id => p = q

\* the last tick removed a tank's projectile by a hit while another
\* projectile stays in flight
C12_Witness ==
  /\ \E i \in 1..Len(events) :
        /\ events[i].kind = "hit"
        /\ tanks[events[i].slot].activeProjectileId = NoProj
  /\ projectiles # {}

\* C13: shoot returns false exactly when the tank's activeProjectileId is
\* non-null, and then changes nothing of the world (tanks, projectiles, time,
\* id counter); a tank whose projectile was removed by a despawn or a hit has
\* its next shoot accepted.
C13_ShootFrame ==
  [][\A s \in DOMAIN tanks :
        IsShootCall(s) =>
          /\ lastCall'.ret = (tanks[s].activeProjectileId = NoProj)
          /\ ~lastCall'.ret =>
                /\ tanks' = tanks /\ projectiles' = projectiles
                /\ t' = t /\ idCounter' = idCounter
          /\ (OwnedBy(projectiles, s) = {}) => lastCall'.ret]_vars

\* a tank shoots again, successfully, right after the tick that removed its
\* first projectile
C13_Witness ==
  /\ lastCall.op = "shoot" /\ lastCall.ret
  /\ Removed(events, lastCall.slot)
  /\ idCounter = 2
  /\ Cardinality(OwnedBy(projectiles, lastCall.slot)) = 1

InArenaP(p) ==
  /\ 0 - PROJECTILE_RADIUS <= p.x /\ p.x <= ARENA_WIDTH + PROJECTILE_RADIUS
  /\ 0 - PROJECTILE_RADIUS <= p.y /\ p.y <= ARENA_HEIGHT + PROJECTILE_RADIUS

\* C14 (as claimed), invariant I3: in every state before and after a call to
\* step, the state right after a successful shoot included, every projectile
\* lies within the arena extended by the projectile radius.
C14_I3 == \A p \in projectiles : InArenaP(p)

\* after every call to step the projectiles that remain are within the bound
C14_AfterStep == [][IsStep => \A p \in projectiles' : InArenaP(p)]_vars

InArenaT(tank) ==
  /\ TANK_RADIUS <= tank.x /\ tank.x <= ARENA_WIDTH - TANK_RADIUS
  /\ TANK_RADIUS <= tank.y /\ tank.y <= ARENA_HEIGHT - TANK_RADIUS

C16_HeadingNormalized ==
  \A s \in DOMAIN tanks : 0 <= tanks[s].headingDeg /\ tanks[s].headingDeg < FULL

\* a tank that started at heading 0 has turned left for one tick, below 0,
\* while another one has turned right
C16_Witness ==
  \E s, o \in DOMAIN tanks :
     /\ tickCount = 1
     /\ tanks[s].activeAction.type = "turnLeft"
     /\ tanks[s].headingDeg = FULL - TANK_TYPES[tanks[s].tankType].turnRate
     /\ tanks[o].activeAction.type = "turnRight"
     /\ tanks[o].headingDeg > FULL \div 2

MatchEnds(evs) == {i \in 1..Len(evs) : evs[i].kind = "matchEnd"}
\* the events hold exactly one matchEnd, with this winner and reason
EndsOnce(evs, winner, reason) ==
  /\ Cardinality(MatchEnds(evs)) = 1
  /\ EndsWith(evs, winner, reason)
\* the alive tanks whose hp is strictly above that of every other alive tank
Leaders(tk) ==
  {s \in AliveSet(tk) : \A o \in AliveSet(tk) \ {s} : tk[o].hp < tk[s].hp}

\* C17, match-end rule of step: with alive the tanks of hp > 0 after the tick,
\* one alive: matchEnd{that slot, hp}; none alive: matchEnd{null, double_ko};
\* otherwise, at or after the time limit: matchEnd with reason timeout, won by
\* the alive tank of strictly highest hp, by nobody when the two highest are
\* equal; otherwise no matchEnd.
C17_MatchEndRule ==
  [][IsStep =>
       LET alive == AliveSet(tanks')
       IN  /\ \A w \in DOMAIN tanks : alive = {w} => EndsOnce(events', w, "hp")
           /\ alive = {} => EndsOnce(events', Null, "double_ko")
           /\ (Cardinality(alive) >= 2 /\ t' >= MATCH_TIME_LIMIT) =>
                 /\ \A w \in Leaders(tanks') : EndsOnce(events', w, "timeout")
                 /\ Leaders(tanks') = {} => EndsOnce(events', Null, "timeout")
           /\ (Cardinality(alive) >= 2 /\ t' < MATCH_TIME_LIMIT) =>
                 MatchEnds(events') = {}]_vars

\* the time limit is reached with two tanks alive at equal hp: the heavy tank
\* was hit once, and the match is broadcast as ended by timeout with no winner
C17_Witness ==
  /\ t >= MATCH_TIME_LIMIT
  /\ Cardinality(AliveSet(tanks)) = 2
  /\ Leaders(tanks) = {}
  /\ EndsWith(events, Null, "timeout")
  /\ Len(broadcasts) > 0
  /\ broadcasts[Len(broadcasts)] = MatchEndMsg(Null, "timeout")

\* C18, match termination: the tick that takes t to the time limit (or an
\* earlier one) emits matchEnd; after a tick that emitted matchEnd step is
\* never called again; and unless the loop driver stops being woken (the
\* match is stopped from outside, or promise continuations keep the host busy
\* for ever) the match reaches such a tick.
C18_Termination ==
  /\ [][IsStep => (t' >= MATCH_TIME_LIMIT => HasEvent(events', "matchEnd"))]_vars
  /\ [][HasEvent(events, "matchEnd") => ~IsStep]_vars
  /\ [](~loopRunning =>
          (HasEvent(events, "matchEnd") \/ EndsWith(broadcasts, Null, "aborted")))
  /\ (<>(~loopRunning) \/ <>[]MicroReady)

\* nobody was hit: the tick that reached the time limit ended the match, won
\* by the heavy tank, and the loop driver is stopped
C18_Witness ==
  /\ t = MATCH_TIME_LIMIT
  /\ tickCount * DT = MATCH_TIME_LIMIT
  /\ EndsWith(events, "p1", "timeout")
  /\ ~loopRunning /\ ~matchRunning /\ driverPc = "idle"

InRange(a, b) ==
  (a.x - b.x) * (a.x - b.x) + (a.y - b.y) * (a.y - b.y) <= SCAN_RANGE * SCAN_RANGE
FullCircle(action) == action.type = "scan" /\ (action.aDeg - action.bDeg) % 360 = 0
Before(o, s) ==
  \E i, j \in 1..Len(AllSlots) : i < j /\ AllSlots[i] = o /\ AllSlots[j] = s
ScanResultOf(evs, s) ==
  evs[CHOOSE i \in 1..Len(evs) :
        evs[i].kind = "actionComplete" /\ evs[i].slot = s].scanResult

\* C19, full-circle scan: a scan whose two angles are equal modulo 360
\* completes with true iff, when it completes, some other tank with hp > 0
\* lies within scan range of the scanner (the tanks before the scanner in slot
\* order have received their increment of the tick, the others not yet, and
\* the hits of the tick are applied afterwards).
C19_FullCircleScan ==
  [][IsStep =>
       \A s \in DOMAIN tanks :
          (FullCircle(tanks[s].activeAction) /\ Completes(events', s, "scan")) =>
             (ScanResultOf(events', s) = "true"
                <=> \E o \in DOMAIN tanks \ {s} :
                       /\ tanks[o].hp > 0
                       /\ InRange(tanks'[s], IF Before(o, s) THEN tanks'[o]
                                              ELSE tanks[o]))]_vars

\* a full-circle scan has just completed with false although the opponent is
\* alive: both tanks backed away and are out of scan range of each other
C19_Witness ==
  \E s \in DOMAIN tanks :
     /\ Completes(events, s, "scan")
     /\ ScanResultOf(events, s) = "false"
     /\ tanks[s].lastScanResult = "false"
     /\ \A o \in DOMAIN tanks : tanks[o].hp > 0
     /\ \A o \in DOMAIN tanks \ {s} : ~InRange(tanks[s], tanks[o])

\* C20 (as claimed): a timed method of the Tank API called while the tank is
\* busy (not idle) is rejected: it returns an already resolved promise, false
\* for scan and undefined for the others, the program goes on at once, and the
\* tank's busyUntil and activeAction, the stored callback and the watchdog are
\* left as they were; the action in flight is then fulfilled by the resolver
\* in the tick in which it completes, and in no other tick.
TimedCallOf(s) ==
  /\ lastCall' # lastCall
  /\ lastCall'.slot = s
  /\ lastCall'.op \in TimedOps
RejectedLast(s) ==
  lastCall.slot = s /\ lastCall.op \in TimedOps /\ ~lastCall.ret
FulfilsPending(s) ==
  \E f \in fulfils' :
     /\ f.slot = s /\ f.by = "resolver"
     /\ f.n = pending[s].n /\ f.type = pending[s].type
C20_BusyRejection ==
  /\ [][\A s \in DOMAIN tanks :
          (TimedCallOf(s) /\ ~isIdle(tanks[s], t)) =>
             /\ ~lastCall'.ret
             /\ lastCall'.value = IF lastCall'.op = "scan" THEN "false" ELSE "undefined"
             /\ prog'[s] = "ready"
             /\ tanks'[s].busyUntil = tanks[s].busyUntil
             /\ tanks'[s].activeAction = tanks[s].activeAction
             /\ pending' = pending
             /\ watchdog' = watchdog]_vars
  /\ [][IsStep =>
          \A s \in DOMAIN tanks :
             (RejectedLast(s) /\ pending[s].set /\ tanks'[s].hp > 0 /\ rtRunning'[s]) =>
                (FulfilsPending(s) <=> t + DT >= tanks[s].busyUntil - EPSILON)]_vars

\* a call was rejected and the action that was in flight has just been
\* fulfilled by the resolver
C20_Witness ==
  \E s \in DOMAIN tanks :
     /\ RejectedLast(s)
     /\ tanks[s].hp > 0
     /\ \E f \in fulfils : f.slot = s /\ f.by = "resolver"

\* C21 (as claimed): when the code of a ready player fails to load (it does
\* not compile, its tankType is neither light nor heavy, it has no loop
\* function), tryStartMatch returns false, sends the error of the first such
\* player to the requester (when there is one and a start was possible
\* otherwise), and creates no world, starts no loop and no runtime, broadcasts
\* nothing and leaves matchRunning as it was.
IsStartCall == Len(starts') = Len(starts) + 1
LastStart == starts'[Len(starts')]
BadCode(s) == lobby[s] \notin {"none", "light", "heavy"}
FirstBad ==
  readyEntries[CHOOSE i \in 1..Len(readyEntries) :
                 /\ BadCode(readyEntries[i])
                 /\ \A j \in 1..(i - 1) : ~BadCode(readyEntries[j])]
C21_LoadFailureAborts ==
  [][(IsStartCall /\ \E s \in SlotSet : BadCode(s)) =>
        /\ ~LastStart.ret
        /\ UNCHANGED <<simVars, driverVars, runtimeVars, orchVars>>
        /\ (~matchRunning /\ Len(readyEntries) >= 2 /\ LastStart.requester # Null) =>
              sent' = Append(sent, StartError(FirstBad, lobby[FirstBad]))]_vars

\* a start was refused because of a player's code, after an earlier match
C21_Witness ==
  /\ Len(starts) >= 2
  /\ ~starts[Len(starts)].ret
  /\ starts[1].ret
  /\ ~matchRunning
  /\ Len(sent) > 0
  /\ sent[Len(sent)].reason \in {"syntax", "badType", "noLoop"}

\* C22 (as claimed): a started match is ended once.  Whichever of a matchEnd
\* event, a stop by the orchestrator and a driver error occurs, and in
\* whatever order, exactly one matchEnd message is broadcast, and from then on
\* the loop is stopped, every runtime is stopped and matchRunning is false.
MatchEndsSent == {i \in 1..Len(broadcasts) : broadcasts[i].kind = "matchEnd"}
C22_EndDispatchedOnce ==
  /\ Cardinality(MatchEndsSent) <= 1
  /\ matchRunning <=> MatchEndsSent = {}
  /\ (HasEvent(events, "matchEnd") \/ ~loopRunning) => ~matchRunning
  /\ ~matchRunning =>
        /\ ~loopRunning
        /\ \A s \in DOMAIN tanks : ~rtRunning[s]

\* the results a match can end with
EndedWith(reason) ==
  /\ ~matchRunning
  /\ \E i \in MatchEndsSent : broadcasts[i].reason = reason

\* a driver error ended the match in the tick in which step reported its end
C22_Witness ==
  /\ EndedWith("error")
  /\ HasEvent(events, "matchEnd")
  /\ tickCount > 0

\* C23 (as claimed): two worlds created with the same seed, constants and
\* players, and given the same action starts and shoot calls at the same tick
\* indices, have identical tanks and projectiles and emit identical event
\* lists at every tick.
C23_Determinism ==
  /\ other.t = t
  /\ other.tanks = tanks
  /\ other.projectiles = projectiles
  /\ other.events = events

\* the two worlds with the projectile ids left out
NoIds(projs) ==
  {[owner |-> p.owner, x |-> p.x, y |-> p.y, vx |-> p.vx, vy |-> p.vy] : p \in projs}
NoIdT(tk) ==
  [s \in DOMAIN tk |-> [tk[s] EXCEPT !.activeProjectileId = IF @ = NoProj THEN 0 ELSE 1]]
\* what does hold: the two worlds differ in the projectile ids only
C23_SameButIds ==
  /\ other.t = t
  /\ NoIdT(other.tanks) = NoIdT(tanks)
  /\ NoIds(other.projectiles) = NoIds(projectiles)
  /\ Len(other.events) = Len(events)

\* C24 (as claimed): whatever createWorld / resetWorld calls are made for
\* other worlds between the shoot calls on a world, a successful shoot
\* allocates an id that no projectile of the world's map has, so the new
\* projectile replaces none that is still in the map.
C24_FreshIds ==
  [][\A s \in DOMAIN tanks :
        (IsShootCall(s) /\ lastCall'.ret) =>
           /\ \A p \in projectiles : p.id # tanks'[s].activeProjectileId
           /\ projectiles \subseteq projectiles']_vars

\* the angle (au) a turn called with the argument d is meant to cover
TurnAngle(tank, d) ==
  IF d.given THEN AbsV(d.v) * TICK_RATE
  ELSE (TANK_TYPES[tank.tankType].turnRate * TICK_RATE * ACTION_DURATION) \div UNITS_PER_SEC
\* the turn of lastCall completes in this step
TurnCompletes(s) ==
  /\ IsStep
  /\ lastCall.slot = s /\ lastCall.ret
  /\ lastCall.op \in {"turnLeft", "turnRight"}
  /\ Completes(events', s, lastCall.op)
TurnedTo(s) ==
  normalizeDeg(lastCall.value.from
               + (IF lastCall.op = "turnLeft" THEN 0 - 1 ELSE 1)
                 * TurnAngle(tanks[s], lastCall.value.degrees))

\* C25 (as claimed): an accepted turnLeft(degrees) / turnRight(degrees) has
\* changed the heading by exactly |degrees| (mod 360), counter-clockwise /
\* clockwise, when it completes, for every degrees value and both classes;
\* without the argument the turn is by turnRate * actionDuration.
C25_TurnByDegrees ==
  [][\A s \in DOMAIN tanks :
        TurnCompletes(s) => tanks'[s].headingDeg = TurnedTo(s)]_vars

\* what does hold: the same for the turns whose angle is a positive whole
\* number of per-tick rotations (turnRate * dt), and for the default turn
C25_WholeTicks ==
  [][\A s \in DOMAIN tanks :
        (/\ TurnCompletes(s)
         /\ TurnAngle(tanks[s], lastCall.value.degrees) > 0
         /\ TurnAngle(tanks[s], lastCall.value.degrees)
               % TANK_TYPES[tanks[s].tankType].turnRate = 0)
          => tanks'[s].headingDeg = TurnedTo(s)]_vars

\* C26 (as claimed): the program of a player has no access to the mailbox of
\* its Tank API object: a stored callback is invoked only by the resolver or
\* the death handling of an onTick, and the mailbox is emptied only by an
\* onTick, by the end of the match or by the forfeit of its slot; so when and
\* with what value an awaitable is fulfilled depends on the simulation only.
C26_HiddenHooks ==
  [][/\ \A f \in fulfils' : f.by \in {"resolver", "death"}
     /\ \A s \in DOMAIN tanks :
           (pending[s].set /\ ~pending'[s].set) =>
              (IsStep \/ ~matchRunning' \/ rtError'[s] # rtError[s])]_vars

\* C27 (as claimed): within one step the actions are applied and their
\* completions collected, then the projectiles move, then the projectiles out
\* of bounds despawn, then the hits are detected, then t advances, then the
\* end of the match is evaluated.  So in the returned list every
\* actionComplete precedes every despawn, every despawn precedes every hit,
\* and a matchEnd event, of which there is at most one, is last; a projectile
\* despawns or hits according to its position after the move and the tanks'
\* positions after their actions; and the end of the match is decided from
\* the hit points after the hits and the time after the advance.
Rank(e) ==
  CASE e.kind = "actionComplete" -> 1
    [] e.kind = "despawn" -> 2
    [] e.kind = "hit" -> 3
    [] e.kind = "matchEnd" -> 4
MovedOf(p) == Only(MoveProjectiles({p}))
InRangeOf(p, tank) ==
  (p.x - tank.x) * (p.x - tank.x) + (p.y - tank.y) * (p.y - tank.y) <= HitRangeSq
EventOf(evs, kind, id) ==
  {i \in 1..Len(evs) : evs[i].kind = kind /\ evs[i].projectileId = id}
C27_TickOrder ==
  /\ [](/\ \A i, j \in 1..Len(events) : i < j => Rank(events[i]) <= Rank(events[j])
        /\ Cardinality({i \in 1..Len(events) : events[i].kind = "matchEnd"}) <= 1)
  /\ [][IsStep =>
          /\ \A p \in projectiles :
                /\ OutOfBounds(MovedOf(p)) <=> EventOf(events', "despawn", p.id) # {}
                /\ \A i \in EventOf(events', "hit", p.id) :
                      /\ ~OutOfBounds(MovedOf(p))
                      /\ InRangeOf(MovedOf(p), tanks'[events'[i].target])
          /\ t' = t + DT
          /\ HasEvent(events', "matchEnd")
                <=> (Len(Alive(tanks')) <= 1 \/ t' >= MATCH_TIME_LIMIT)]_vars

\* a tick in which an action completes, a projectile despawns, another one
\* hits and the match ends
C27_Witness ==
  /\ HasEvent(events, "actionComplete")
  /\ HasEvent(events, "despawn")
  /\ HasEvent(events, "hit")
  /\ HasEvent(events, "matchEnd")

\* C28 (as claimed): a projectile ends once.  In a tick, a projectile that is
\* out of bounds after its move is despawned and registers no hit; a
\* projectile that hits is consumed by its first hit; a projectile has a
\* despawn or hit event in exactly the tick in which it leaves the map, one
\* event only, and in that tick its owner's activeProjectileId is cleared;
\* an id that has left the map is never in the map again.
EndsOf(evs, id) ==
  {i \in 1..Len(evs) : evs[i].kind \in {"despawn", "hit"} /\ evs[i].projectileId = id}
Ids(projs) == {p.id : p \in projs}
C28_EndsOnce ==
  /\ [](\A p \in projectiles : p.id < idCounter)
  /\ [][idCounter' >= idCounter]_vars
  /\ [][IsStep =>
          /\ Ids(projectiles') \subseteq Ids(projectiles)
          /\ \A i \in 1..Len(events') :
                events'[i].kind \in {"despawn", "hit"}
                  => events'[i].projectileId \in Ids(projectiles)
          /\ \A p \in projectiles :
                /\ Cardinality(EndsOf(events', p.id)) <= 1
                /\ EndsOf(events', p.id) # {} <=> p.id \notin Ids(projectiles')
                /\ ~InArenaP(MovedOf(p)) =>
                      /\ EventOf(events', "despawn", p.id) # {}
                      /\ EventOf(events', "hit", p.id) = {}
                /\ tanks'[p.owner].activeProjectileId =
                      IF EndsOf(events', p.id) # {} THEN NoProj ELSE p.id]_vars

\* a tick in which one projectile left the arena and another one hit a tank
C28_Witness ==
  /\ \E i, j \in 1..Len(events) :
        /\ events[i].kind = "despawn" /\ events[j].kind = "hit"
        /\ events[i].projectileId # events[j].projectileId
  /\ projectiles = {}
  /\ \A s \in DOMAIN tanks : tanks[s].activeProjectileId = NoProj

\* C29 (as claimed): hit rules.  A hit event never names the projectile's
\* owner as its target, nor a tank whose hp was 0 before the tick or was
\* brought to 0 by an earlier hit of the same tick; a tick lowers a tank's hp
\* by the damage constant for each hit on it, floored at 0; hp stays within
\* [0, class max] and never increases.
HitsOn(evs, s) == {i \in 1..Len(evs) : evs[i].kind = "hit" /\ evs[i].target = s}
C29_HitRules ==
  /\ [](\A s \in DOMAIN tanks :
          0 <= tanks[s].hp /\ tanks[s].hp <= TANK_TYPES[tanks[s].tankType].hp)
  /\ [][\A s \in DOMAIN tanks : tanks'[s].hp <= tanks[s].hp]_vars
  /\ [][IsStep =>
          /\ \A i \in 1..Len(events') :
                events'[i].kind = "hit" =>
                  /\ events'[i].target # events'[i].slot
                  /\ tanks[events'[i].target].hp
                       - PROJECTILE_DAMAGE
                           * Cardinality({j \in HitsOn(events', events'[i].target) : j < i})
                     > 0
          /\ \A s \in DOMAIN tanks :
                tanks'[s].hp =
                  MaxV(0, tanks[s].hp
                            - PROJECTILE_DAMAGE * Cardinality(HitsOn(events', s)))]_vars

\* a tick in which a tank was killed by one projectile while a second
\* projectile, of another tank, was in hit range of it too and stays in flight
C29_Witness ==
  \E i \in 1..Len(events) :
     /\ events[i].kind = "hit"
     /\ tanks[events[i].target].hp = 0
     /\ \E p \in projectiles : p.owner # events[i].target
                                 /\ HitsDead(p, events[i].target, tanks)

\* a tick in which two projectiles hit the same tank
C29_TwoHits ==
  \E s \in DOMAIN tanks : Cardinality(HitsOn(events, s)) = 2

\* C30 (as claimed): scan resolves at completion time.  A scan in progress
\* completes in the tick in which its time is up, and not before; its boolean
\* is computed in that tick from the scanner's pose and the other tanks'
\* positions of that tick (the tanks before the scanner in slot order have
\* received their increment of the tick, the others not yet, and the hits of
\* the tick are applied afterwards): it is true iff some other tank with
\* hp > 0 passes the arc test; it is written to lastScanResult and carried as
\* scanResult of the actionComplete event.  Until then lastScanResult keeps
\* its value.
SeenBy(s, o) ==
  /\ tanks[o].hp > 0
  /\ isInScanArc(tanks'[s], IF Before(o, s) THEN tanks'[o] ELSE tanks[o],
                 tanks[s].activeAction.aDeg, tanks[s].activeAction.bDeg, SCAN_RANGE)
C30_ScanAtCompletion ==
  [][IsStep =>
       \A s \in DOMAIN tanks :
          (tanks[s].activeAction.type = "scan" /\ tanks[s].hp > 0) =>
             IF Expired(t, tanks[s])
             THEN /\ Completes(events', s, "scan")
                  /\ ScanResultOf(events', s) = Bool(\E o \in DOMAIN tanks \ {s} : SeenBy(s, o))
                  /\ tanks'[s].lastScanResult = ScanResultOf(events', s)
                  /\ tanks'[s].x = tanks[s].x /\ tanks'[s].y = tanks[s].y
                  /\ tanks'[s].headingDeg = tanks[s].headingDeg
             ELSE /\ ~Completes(events', s, "scan")
                  /\ tanks'[s].lastScanResult = tanks[s].lastScanResult]_vars

\* a scan has just completed with false although the opponent, alive, was in
\* scan range when the scan started: the opponent backed away during the scan,
\* its three ticks of moving ending in the tick of the scan's completion
C30_Witness ==
  \E s \in DOMAIN tanks, o \in DOMAIN tanks :
     /\ s # o
     /\ Completes(events, s, "scan")
     /\ ScanResultOf(events, s) = "false"
     /\ tanks[s].lastScanResult = "false"
     /\ Completes(events, o, "moveBackward")
     /\ tanks[o].hp > 0
     /\ tanks[s].y = tanks[o].y
     /\ AbsV(tanks[s].x - tanks[o].x) > SCAN_RANGE
     /\ AbsV(tanks[s].x - tanks[o].x)
          - 3 * TANK_TYPES[tanks[o].tankType].moveSpeed <= SCAN_RANGE

\* a scan has just completed with false with a destroyed tank in scan range
C30_DeadUnseen ==
  \E s \in DOMAIN tanks, o \in DOMAIN tanks :
     /\ s # o
     /\ Completes(events, s, "scan")
     /\ ScanResultOf(events, s) = "false"
     /\ tanks[o].hp = 0
     /\ InRange(tanks[s], tanks[o])

\* C31 (as claimed): scan arc test.  For a target within range and not at the
\* scanner's position, with r the bearing of the target relative to the
\* scanner's heading and a, b the normalized arc angles, isInScanArc returns
\* true iff a = b or r is met when sweeping clockwise from a, both ends
\* included, before b is passed; a target beyond range is rejected whatever
\* the arc.
ArcCalled == lastCall.op = "isInScanArc"
ArcDistSq ==
  (tanks["p2"].x - tanks["p1"].x) * (tanks["p2"].x - tanks["p1"].x)
    + (tanks["p2"].y - tanks["p1"].y) * (tanks["p2"].y - tanks["p1"].y)
ArcBearing ==
  normalizeDeg(Atan2Au(tanks["p2"].y - tanks["p1"].y, tanks["p2"].x - tanks["p1"].x)
                 - tanks["p1"].headingDeg)
OnSweep(r, a, b) ==
  \E k \in 0..(FULL - 1) :
     /\ (a + k) % FULL = r
     /\ \A j \in 0..(k - 1) : (a + j) % FULL # b
C31_ArcTest ==
  ArcCalled =>
    LET a == (lastCall.value.aDeg * TICK_RATE) % FULL
        b == (lastCall.value.bDeg * TICK_RATE) % FULL
    IN  /\ ArcDistSq > SCAN_RANGE * SCAN_RANGE => ~lastCall.ret
        /\ (ArcDistSq <= SCAN_RANGE * SCAN_RANGE /\ ArcDistSq # 0) =>
              (lastCall.ret <=> (a = b \/ OnSweep(ArcBearing, a, b)))

\* scan(170, -170) by a scanner heading east has found a target due west
C31_Witness ==
  /\ ArcCalled
  /\ lastCall.value = [aDeg |-> 170, bDeg |-> 0 - 170]
  /\ lastCall.ret
  /\ tanks["p1"].headingDeg = 0
  /\ ArcBearing = 180 * TICK_RATE
  /\ ArcDistSq # 0

\* scan(-30, 30) has rejected a target behind the scanner
C31_FrontMiss ==
  /\ ArcCalled
  /\ lastCall.value = [aDeg |-> 0 - 30, bDeg |-> 30]
  /\ ~lastCall.ret
  /\ ArcBearing = 180 * TICK_RATE
  /\ ArcDistSq <= SCAN_RANGE * SCAN_RANGE

\* C32 (as claimed): capped catch-up.  In one wake the loop driver calls step
\* at most 10 times, whatever wall-clock time elapsed since the previous
\* wake, and when a wake ends with the loop still running the accumulator is
\* below one tickInterval.
CallsOf(call) == {i \in 1..Len(driverLog) : driverLog[i].call = call}
C32_CappedCatchUp ==
  /\ Cardinality(CallsOf("step")) <= 10
  /\ (driverPc = "idle" /\ loopRunning) => accumulator < TICK_INTERVAL

\* a wake that came after more than ten tick intervals has ended with the loop
\* running, after ten calls of step
C32_Witness ==
  /\ driverPc = "idle"
  /\ loopRunning
  /\ driverLog # <<>>
  /\ driverLog[1].call = "wake"
  /\ driverLog[1].arg > 10 * TICK_INTERVAL
  /\ Cardinality(CallsOf("step")) = 10
  /\ loopTimer >= 1

\* C33 (as claimed): loop stops on matchEnd.  When the events of a tick
\* contain matchEnd, the driver delivers them to onTick and then, onTick
\* having returned, sets running false and calls onMatchEnd exactly once with
\* the same events; afterwards it never calls step, onTick or onMatchEnd
\* again and re-arms no wake, even if accumulated time would allow more ticks.
NonStop(log) == SelectSeq(log, LAMBDA c : c.call # "stop")
EndedTick(i) ==
  /\ driverLog[i].call = "step"
  /\ driverLog[i].arg = "matchEnd"
  /\ \A j \in CallsOf("onMatchEnd") : driverLog[j].arg # "error"
StepThrew(i) == driverLog[i].call = "step" /\ driverLog[i].arg = "throws"
C34_ErrorBoundary ==
  /\ [](\A i \in 1..Len(driverLog) :
          StepThrew(i) =>
            /\ i < Len(driverLog)
            /\ driverLog[i + 1] = Called("onMatchEnd", driverLog[i].n, "error")
            /\ Cardinality(CallsOf("onMatchEnd")) = 1
            /\ \A j \in CallsOf("step") \cup CallsOf("onTick") : j <= i
            /\ ~loopRunning
            /\ loopTimer = NoTimer
            /\ driverPc = "idle")
  /\ [][(\E i \in 1..Len(driverLog) : StepThrew(i)) =>
          /\ NonStop(driverLog') = NonStop(driverLog)
          /\ tickCount' = tickCount
          /\ loopTimer' = NoTimer
          /\ ~loopRunning']_vars

\* step threw in the third pass of a wake, with time accumulated for more
C34_Witness ==
  /\ \E i \in 1..Len(driverLog) : StepThrew(i)
  /\ Cardinality(CallsOf("step")) = 3
  /\ accumulator >= 2 * TICK_INTERVAL
  /\ driverPc = "idle"

\* C35 (as claimed): loop stop.  After stop() returned on the loop handle,
\* running is false and step, onTick and onMatchEnd are never invoked again,
\* whether stop was called between wakes or from inside an onTick callback;
\* a second stop() changes nothing.
C35_StopIsFinal ==
  /\ [](\A i \in CallsOf("stop") :
          /\ ~loopRunning
          /\ \A j \in (i + 1)..Len(driverLog) : driverLog[j].call = "stop")
  /\ [][CallsOf("stop") # {} =>
          /\ NonStop(driverLog') = NonStop(driverLog)
          /\ tickCount' = tickCount
          /\ loopTimer' = NoTimer
          /\ ~loopRunning']_vars

\* what holds of stop(): running is false from then on, step and onTick are
\* never called again and no wake is armed; onMatchEnd alone may follow, in
\* the pass from whose onTick stop() was called
C35_StopHalts ==
  /\ [](\A i \in CallsOf("stop") :
          /\ ~loopRunning
          /\ \A j \in (i + 1)..Len(driverLog) :
                \/ driverLog[j].call = "stop"
                \/ /\ driverLog[j].call = "onMatchEnd"
                   /\ driverLog[i].arg = "onTick"
                   /\ driverLog[j].n = driverLog[i].n)
  /\ [][CallsOf("stop") # {} =>
          /\ NonStop(driverLog') = NonStop(driverLog)
          /\ tickCount' = tickCount
          /\ loopTimer' = NoTimer
          /\ ~loopRunning']_vars

\* C36 (as claimed): resolver protocol.  In the onTick of a tick the resolver
\* invokes the stored callback of a slot iff the tick has an actionComplete
\* event for the slot and the slot's mailbox holds a callback; it invokes the
\* callback of the completed action, once, and the mailbox is empty by then;
\* nothing else makes the resolver invoke or clear a callback; a callback
\* stored by the resumed program for its next action is not the one invoked.
ByResolver(fs, s) == {f \in fs : f.slot = s /\ f.by = "resolver"}
C36_ResolverProtocol ==
  /\ [][IsStep =>
          \A s \in DOMAIN tanks :
             IF CompleteFor(events', s) /\ pending[s].set
             THEN /\ ByResolver(fulfils', s)
                       = {Fulfilment(s, pending[s], tanks'[s], "resolver")}
                  /\ Completes(events', s, pending[s].type)
                  /\ ~pending'[s].set
             ELSE /\ ByResolver(fulfils', s) = {}
                  /\ pending'[s] \in {pending[s], NoPending}
                  /\ (pending'[s] # pending[s]) =>
                        (tanks'[s].hp <= 0 \/ HasEvent(events', "matchEnd"))]_vars
  /\ [][~IsStep => \A s \in DOMAIN tanks : ByResolver(fulfils', s) \subseteq fulfils]_vars
  /\ [](\A f \in fulfils : f.by = "resolver" => f.n < tickCount)
  /\ [](\A s \in DOMAIN tanks : pending[s].set => pending[s].n <= tickCount)

\* a program resumed by the resolver in the last tick has stored the callback
\* of its next action
C36_Witness ==
  \E s \in DOMAIN tanks :
     /\ ByResolver(fulfils, s) # {}
     /\ pending[s].set
     /\ pending[s].n = tickCount
     /\ tanks[s].hp > 0

\* C37 (as claimed): watchdog forfeit.  If the watchdog timer of a loop
\* invocation fires before it is cleared, the race of run() settles with the
\* timeout; run() then sets running false, sets its error message, invokes
\* the error callback exactly once, and returns without invoking the loop
\* function again; the pending completion callback of the handle is cleared,
\* and no later tick fulfils a callback of the slot.
WatchdogFires(s) == watchdog[s] = 0 /\ watchdog'[s] = NoTimer /\ race[s] = Null
TimesOut(s) == race[s] = "timeout" /\ runPc[s] = "racing" /\ race'[s] = Null
ErrorsOf(s) ==
  {i \in 1..Len(broadcasts) : broadcasts[i].kind = "error" /\ broadcasts[i].slot = s}
C37_WatchdogForfeit ==
  /\ [][\A s \in DOMAIN tanks :
          /\ (WatchdogFires(s) /\ runPc[s] = "racing") => race'[s] = "timeout"
          /\ TimesOut(s) =>
                /\ ~rtRunning'[s]
                /\ rtError'[s] = "timeout"
                /\ broadcasts' = Append(broadcasts, ErrorMsg(s, "timeout"))
                /\ runPc'[s] = "done"
                /\ prog'[s] = prog[s]
                /\ watchdog'[s] = NoTimer
                /\ ~pending'[s].set
          /\ rtError[s] = "timeout" =>
                /\ \A f \in fulfils' \ fulfils : f.slot # s
                /\ rtError'[s] = "timeout"]_vars
  /\ [](\A s \in DOMAIN tanks :
          rtError[s] = "timeout" =>
            /\ ~rtRunning[s]
            /\ runPc[s] = "done"
            /\ Cardinality(ErrorsOf(s)) = 1)

\* the watchdog has fired on a program that was waiting for its action to
\* complete: the tank has forfeited and the mailbox is empty
C37_Witness ==
  \E s \in DOMAIN tanks :
     /\ rtError[s] = "timeout"
     /\ prog[s] = "awaiting"
     /\ ~pending[s].set
     /\ tanks[s].hp = 0
     /\ matchRunning

\* C38 (as claimed): graceful runtime stop.  stop() on a running runtime
\* sets running false, clears the pending callback of the handle and settles
\* the race of run() unless something settled it before; the continuation of
\* run() then ends the outer task without an error and without invoking the
\* loop function again, also when the program is suspended on a promise that
\* never settles; a stop() of a runtime that is stopped already changes
\* nothing of it, and stop() twice is stop() once.
StopsNow(s) == rtRunning[s] /\ ~rtRunning'[s] /\ runPc'[s] = runPc[s]
AllStopped == matchRunning /\ ~matchRunning'
RuntimeOf(s) == <<rtRunning[s], race[s], runPc[s], rtError[s]>>
NoErrorNow ==
  /\ rtError' = rtError
  /\ \A i \in 1..Len(broadcasts') :
        broadcasts'[i].kind = "error" => (i <= Len(broadcasts) /\ broadcasts[i] = broadcasts'[i])
C38_FirstStop ==
  [][\A s \in DOMAIN tanks :
       /\ StopsNow(s) =>
             /\ ~pending'[s].set
             /\ runPc[s] = "racing" => race'[s] # Null
             /\ race[s] = Null => race'[s] \in {"stopped", Null}
             /\ NoErrorNow
       /\ ~rtRunning[s] =>
             /\ ~rtRunning'[s]
             /\ (runPc[s] = "racing" /\ race[s] # Null /\ race'[s] = Null) =>
                   /\ runPc'[s] = "done"
                   /\ prog'[s] = prog[s]
                   /\ race[s] \in {"stopped", "returned"} => (NoErrorNow /\ tanks' = tanks)
             /\ runPc[s] = "done" => runPc'[s] = "done"]_vars
C38_SecondStop ==
  /\ [][\A s \in DOMAIN tanks :
          (~rtRunning[s] /\ AllStopped) => RuntimeOf(s)' = RuntimeOf(s)]_vars
  /\ [](\A S \in SUBSET DOMAIN tanks :
          /\ StopRunning(S, StopRunning(S, rtRunning)) = StopRunning(S, rtRunning)
          /\ StopPending(S, StopPending(S, pending)) = StopPending(S, pending)
          /\ StopRace(S, StopRace(S, race)) = StopRace(S, race))
C38_Settles ==
  \A s \in {"p1", "p2"} : [](~rtRunning[s] => <>(runPc[s] = "done"))
SnapshotEvery ==
  (2 * TICK_RATE + STATE_BROADCAST_RATE) \div (2 * STATE_BROADCAST_RATE)
C39_SnapshotThrottle ==
  /\ [](snapshots = tickCount \div SnapshotEvery)
  /\ [][/\ IsStep =>
             /\ snapshots' = IF tickCount' % SnapshotEvery = 0
                              THEN snapshots + 1 ELSE snapshots
             /\ snapshots' # snapshots =>
                   \A s \in DOMAIN tanks :
                      /\ CompleteFor(events', s) => ~pending'[s].set
                      /\ tanks'[s].hp <= 0 => (~rtRunning'[s] /\ ~pending'[s].set)
        /\ ~IsStep => snapshots' = snapshots
        /\ ~matchRunning => snapshots' = snapshots]_vars

\* a match of two snapshots, the second in the tick that ended the match
C39_Witness ==
  /\ snapshots = 2
  /\ tickCount = 2 * SnapshotEvery
  /\ ~matchRunning
  /\ \E s \in DOMAIN tanks : \E f \in fulfils : f.slot = s

\* C40 (as claimed): a dead tank does nothing.  Once the hp of a tank is 0,
\* by a hit or by forfeit, no call of its player program is accepted, no
\* player call changes its activeAction or busyUntil, and no projectile owned
\* by it is spawned, however its program is resumed.
PlayerCalls == calls' # calls \/ lastCall' # lastCall
C40_DeadTankIdle ==
  [][\A s \in DOMAIN tanks :
       (tanks[s].hp <= 0 /\ PlayerCalls) =>
          /\ tanks'[s].activeAction = tanks[s].activeAction
          /\ tanks'[s].busyUntil = tanks[s].busyUntil
          /\ accepted'[s] \subseteq accepted[s]
          /\ OwnedBy(projectiles', s) \subseteq OwnedBy(projectiles, s)]_vars

\* the part of C40 about projectiles alone
C40_DeadTankNoShot ==
  [][\A s \in DOMAIN tanks :
       (tanks[s].hp <= 0 /\ PlayerCalls) =>
          OwnedBy(projectiles', s) \subseteq OwnedBy(projectiles, s)]_vars

====
